---- MODULE Spec2Model ----
(***************************************************************************)
(* Model of the HTTP transformation filter of envoy-gloo                   *)
(* (source/common/http/filter/transformation_filter.cc).                   *)
(*                                                                         *)
(* One stream is modelled.  The filter's members are the variables; the    *)
(* host proxy is the environment: it picks the route, the buffer limits,   *)
(* the chunks and the order of the callbacks (headers, then data, then     *)
(* trailers, per direction).  Buffers are strings: Len is the byte length  *)
(* and \o is Buffer::move / string concatenation.                          *)
(***************************************************************************)
EXTENDS Integers, Sequences, FiniteSets, TLC

VARIABLES
  \* ---- TransformationFilter members
  functional_,              \* bool functional_
  current_function_,        \* Optional<const std::string*> current_function_
  error_,                   \* Optional<Error> error_
  error_code_,              \* Http::Code error_code_
  error_messgae_,           \* std::string error_messgae_
  request_body_,            \* Buffer::OwnedImpl request_body_
  response_body_,           \* Buffer::OwnedImpl response_body_
  header_map_,              \* HeaderMap* header_map_: which map it points to
  stream_destroyed_,        \* bool stream_destroyed_
  request_transformation_,  \* const Transformation* request_transformation_
  response_transformation_, \* const Transformation* response_transformation_
  decoder_buffer_limit_,    \* uint32_t decoder_buffer_limit_
  encoder_buffer_limit_,    \* uint32_t encoder_buffer_limit_
  \* ---- the host: what the filter reads from it and hands to it
  route,                    \* decoder_callbacks_->route()
  accessor_function,        \* MetadataAccessor::getFunctionName()
  request_headers,          \* the HeaderMap passed to decodeHeaders
  response_headers,         \* the HeaderMap passed to encodeHeaders
  decoded_data,             \* buffers handed to addDecodedData, in order
  encoded_data,             \* buffers handed to addEncodedData, in order
  local_replies,            \* calls of Utility::sendLocalReply, in order
  decode_phase,             \* host's position in the request
  encode_phase,             \* host's position in the response
  decode_data_calls,        \* decodeData callbacks made so far
  encode_data_calls,        \* encodeData callbacks made so far
  \* ---- observation of the run
  n_transformRequest,       \* calls of transformRequest so far
  n_transformResponse,      \* calls of transformResponse so far
  request_overflowed,       \* request_body_ has exceeded its cap once
  response_overflowed,      \* response_body_ has exceeded its cap once
  request_error_seen,       \* an error was recorded by a decode callback
  last                      \* the last callback: arguments, result, effects

filter_vars == <<functional_, current_function_, error_, error_code_,
                 error_messgae_, request_body_, response_body_, header_map_,
                 stream_destroyed_, request_transformation_,
                 response_transformation_, decoder_buffer_limit_,
                 encoder_buffer_limit_>>
host_vars == <<route, accessor_function, request_headers, response_headers,
               decoded_data, encoded_data, local_replies, decode_phase,
               encode_phase, decode_data_calls, encode_data_calls>>
obs_vars == <<n_transformRequest, n_transformResponse, request_overflowed,
              response_overflowed, request_error_seen, last>>

VARIABLES
  \* ---- InjaTransformer (inja_transformer.cc) and the message it is given
  transformation_,            \* TransformationTemplate transformation_
  merged_extractors_to_body_, \* bool merged_extractors_to_body_
  loaded,                     \* config load: not yet, accepted or rejected
  msg_header_map,             \* header_map: the map handed to transform
  msg_body,                   \* body: the buffer handed to transform
  dynamic_metadata,           \* streamInfo().dynamicMetadata() of the stream
  n_parse,                    \* calls of TransformerInstance::parse so far
  n_messages,                 \* calls of InjaTransformer::transform so far
  tr,                         \* the last transform: inputs, steps, outcome
  rng_,                       \* Envoy::Random::RandomGenerator &rng_
  environ_                    \* unordered_map<string, string> environ_

inja_vars == <<transformation_, merged_extractors_to_body_, loaded,
               msg_header_map, msg_body, dynamic_metadata, n_parse,
               n_messages, tr, rng_, environ_>>

VARIABLES
  \* ---- a call of TransformerInstance::substring_callback
  sub_args,                   \* inja::Arguments of the call
  sub_result,                 \* what it returned, once it has
  \* ---- Nats::Streaming::PubRequestHandler (pub_request_handler.cc)
  request_per_inbox,          \* std::map<std::string, PubRequest>
  nats_last                   \* the last handler call and the callbacks it made

aux_vars == <<sub_args, sub_result, request_per_inbox, nats_last>>
vars == <<filter_vars, host_vars, obs_vars, inja_vars, aux_vars>>

----------------------------------------------------------------------------
(* Bounds of the model.                                                    *)

\* most data callbacks the host makes on the stream, both directions counted
MaxDataCalls == 3
\* the non-zero buffer limit the host may configure, in bytes
CapLimit == 2

----------------------------------------------------------------------------
(* Values of the program.                                                  *)

NoError == "NoError"
PayloadTooLarge == "PayloadTooLarge"
JsonParseError == "JsonParseError"
TemplateParseError == "TemplateParseError"
TransformationNotFound == "TransformationNotFound"
ErrorKinds == {PayloadTooLarge, JsonParseError, TemplateParseError,
               TransformationNotFound}

\* Http::Code values used by error()
CodePayloadTooLarge == 413
CodeBadRequest == 400
CodeNotFound == 404
CodeOK == 200

\* filter statuses returned to the host
Continue == "Continue"
StopIteration == "StopIteration"
StopIterationNoBuffer == "StopIterationNoBuffer"

\* nullptr, an invalid Optional
Null == "nullptr"
NoFunction == "<no function>"

REQUEST_TRANSFORMATION == "request_transformation"
RESPONSE_TRANSFORMATION == "response_transformation"

\* config_->getTranformation(name): the registry holds one Transformation
Registry == {"t1"}
getTranformation(name) == IF name \in Registry THEN name ELSE Null

RECURSIVE Rep(_, _)
Rep(c, n) == IF n = 0 THEN "" ELSE c \o Rep(c, n - 1)

\* the chunks the host may pass in one data callback: empty, one byte, and
\* as many bytes as the limit allows
Chunks(c) == {Rep(c, n) : n \in {0, 1, CapLimit}}

----------------------------------------------------------------------------
(* ProtobufWkt::Value: kind_case, string_value, struct_value().fields().   *)
(* fields is a set of [name, val] pairs with distinct names.               *)

Value(k, s, f) == [kind |-> k, str |-> s, fields |-> f]
NotSet == Value("NOT_SET", "", {})
StringValue(s) == Value("kStringValue", s, {})
StructValue(f) == Value("kStructValue", "", f)
Field(n, v) == [name |-> n, val |-> v]

HasField(fields, n) == \E e \in fields : e.name = n
FieldOf(fields, n) == (CHOOSE e \in fields : e.name = n).val

----------------------------------------------------------------------------
(* The route the host resolved for the stream.                             *)

NoRoute == [present |-> FALSE, entry |-> FALSE, clusterName |-> "",
            request_transformation |-> NotSet,
            response_transformation |-> NotSet]
NoRouteEntry == [NoRoute EXCEPT !.present = TRUE]
RouteWith(req, resp) == [present |-> TRUE, entry |-> TRUE,
                         clusterName |-> "c1",
                         request_transformation |-> req,
                         response_transformation |-> resp]

\* functional-mode metadata: {cluster_name: {function_name: template_id}}
Functions(fn, v) == StructValue({Field(fn, v)})
ClusterStruct(c, v) == StructValue({Field(c, v)})

\* a string where functional mode expects a struct, and the ways the struct
\* can miss the route's cluster "c1" or the function "f1"
FunctionalValues ==
  { StringValue("t1"),
    ClusterStruct("c1", Functions("f1", StringValue("t1"))),
    ClusterStruct("c2", Functions("f1", StringValue("t1"))),
    ClusterStruct("c1", Functions("f2", StringValue("t1"))),
    ClusterStruct("c1", StringValue("t1")),
    ClusterStruct("c1", Functions("f1", NotSet)),
    ClusterStruct("c1", Functions("f1", StringValue("nope"))) }

\* no value, an empty, a registered and an unregistered template id, and a
\* struct where direct mode expects a string
DirectValues ==
  { NotSet, StringValue(""), StringValue("t1"), StringValue("nope"),
    ClusterStruct("c1", Functions("f1", StringValue("t1"))) }

RequestValues(functional) ==
  IF functional THEN FunctionalValues ELSE DirectValues

\* the value that resolves in the mode
Resolving(functional) ==
  IF functional THEN ClusterStruct("c1", Functions("f1", StringValue("t1")))
  ELSE StringValue("t1")

\* the response side resolves with a request side that resolves, and with
\* one that does not (no value in direct mode, no function entry in
\* functional mode)
Unresolving(functional) ==
  IF functional THEN ClusterStruct("c1", Functions("f2", StringValue("t1")))
  ELSE NotSet

Routes(functional) ==
  {NoRoute, NoRouteEntry}
    \cup {RouteWith(q, NotSet) : q \in RequestValues(functional)}
    \cup {RouteWith(q, Resolving(functional)) :
            q \in {Resolving(functional), Unresolving(functional)}}

\* Config::Metadata::metadataValue(routeEntry->metadata(), TRANSFORMATION, key)
metadataValue(r, key) ==
  IF key = REQUEST_TRANSFORMATION THEN r.request_transformation
  ELSE r.response_transformation

----------------------------------------------------------------------------
(* Header maps and the outcomes of Transformer::transform.                 *)

\* content_length = NoLength: the header is absent
NoLength == -1
HeaderMap(st) == [status |-> st, content_type |-> TRUE,
                  content_length |-> NoLength, transformed |-> FALSE]

Outcome(k, rep, b, w) == [kind |-> k, replace |-> rep, body |-> b, what |-> w]

\* what one call of transform may do: leave the body, replace it (by an
\* empty or a non-empty body), or throw one of the two exception types
TransformOutcomes ==
  { Outcome("ok", FALSE, "", ""),
    Outcome("ok", TRUE, "", ""),
    Outcome("ok", TRUE, "x", ""),
    Outcome("parse_error", FALSE, "", "parse error"),
    Outcome("runtime_error", FALSE, "", "render error") }

----------------------------------------------------------------------------
(* The stream as one record, so that a handler and the functions it calls  *)
(* are operators from record to record.                                    *)

Self ==
  [ functional_ |-> functional_,
    current_function_ |-> current_function_,
    error_ |-> error_,
    error_code_ |-> error_code_,
    error_messgae_ |-> error_messgae_,
    request_body_ |-> request_body_,
    response_body_ |-> response_body_,
    header_map_ |-> header_map_,
    stream_destroyed_ |-> stream_destroyed_,
    request_transformation_ |-> request_transformation_,
    response_transformation_ |-> response_transformation_,
    decoder_buffer_limit_ |-> decoder_buffer_limit_,
    encoder_buffer_limit_ |-> encoder_buffer_limit_,
    route |-> route,
    request_headers |-> request_headers,
    response_headers |-> response_headers,
    decoded_data |-> decoded_data,
    encoded_data |-> encoded_data,
    local_replies |-> local_replies,
    n_transformRequest |-> n_transformRequest,
    n_transformResponse |-> n_transformResponse,
    request_overflowed |-> request_overflowed,
    response_overflowed |-> response_overflowed,
    request_error_seen |-> request_error_seen,
    last |-> last ]

Commit(s) ==
  /\ functional_' = s.functional_
  /\ current_function_' = s.current_function_
  /\ error_' = s.error_
  /\ error_code_' = s.error_code_
  /\ error_messgae_' = s.error_messgae_
  /\ request_body_' = s.request_body_
  /\ response_body_' = s.response_body_
  /\ header_map_' = s.header_map_
  /\ stream_destroyed_' = s.stream_destroyed_
  /\ request_transformation_' = s.request_transformation_
  /\ response_transformation_' = s.response_transformation_
  /\ decoder_buffer_limit_' = s.decoder_buffer_limit_
  /\ encoder_buffer_limit_' = s.encoder_buffer_limit_
  /\ route' = s.route
  /\ request_headers' = s.request_headers
  /\ response_headers' = s.response_headers
  /\ decoded_data' = s.decoded_data
  /\ encoded_data' = s.encoded_data
  /\ local_replies' = s.local_replies
  /\ n_transformRequest' = s.n_transformRequest
  /\ n_transformResponse' = s.n_transformResponse
  /\ request_overflowed' = s.request_overflowed
  /\ response_overflowed' = s.response_overflowed
  /\ request_error_seen' = s.request_error_seen
  /\ last' = s.last
  /\ UNCHANGED <<inja_vars, aux_vars>>

\* the record of a callback that is starting
Call(cb, dir, end_stream, chunk) ==
  [ cb |-> cb, dir |-> dir, end_stream |-> end_stream,
    chunk |-> chunk, data_after |-> chunk, ret |-> "",
    transformed |-> FALSE, raised |-> FALSE, overflow |-> FALSE,
    replies |-> 0, added |-> <<>> ]

Begin(cb, dir, end_stream, chunk) ==
  [Self EXCEPT !.last = Call(cb, dir, end_stream, chunk)]

Return(s, status) == [s EXCEPT !.last.ret = status]

\* *header_map_
Headers(s) ==
  IF s.header_map_ = "request" THEN s.request_headers ELSE s.response_headers
WithHeaders(s, h) ==
  IF s.header_map_ = "request" THEN [s EXCEPT !.request_headers = h]
  ELSE [s EXCEPT !.response_headers = h]

----------------------------------------------------------------------------
(* TransformationFilter                                                    *)

is_error(s) == s.error_ # NoError

requestActive(s) == s.request_transformation_ # Null
responseActive(s) == s.response_transformation_ # Null

resetInternalState(s) ==
  [s EXCEPT !.request_body_ = "", !.response_body_ = ""]

ErrorCode(kind) ==
  CASE kind = PayloadTooLarge -> CodePayloadTooLarge
    [] kind = JsonParseError -> CodeBadRequest
    [] kind = TemplateParseError -> CodeBadRequest
    [] kind = TransformationNotFound -> CodeNotFound

ErrorText(kind) ==
  CASE kind = PayloadTooLarge -> "payload too large"
    [] kind = JsonParseError -> "bad request"
    [] kind = TemplateParseError -> "bad request"
    [] kind = TransformationNotFound -> "transformation for function not found"

ErrorMessage(kind, msg) ==
  IF msg # ""
  THEN IF ErrorText(kind) = "" THEN msg ELSE ErrorText(kind) \o ": " \o msg
  ELSE ErrorText(kind)

\* error() that forgets the detail of the exception
error_DropsDetail(s, kind, msg) ==
  LET r == resetInternalState([s EXCEPT !.error_ = kind])
  IN [r EXCEPT !.error_code_ = ErrorCode(kind),
               !.error_messgae_ = ErrorText(kind),
               !.last.raised = TRUE]

error(s, kind, msg) ==
  LET r == resetInternalState([s EXCEPT !.error_ = kind])
  IN [r EXCEPT !.error_code_ = ErrorCode(kind),
               !.error_messgae_ = ErrorMessage(kind, msg),
               !.last.raised = TRUE]

\* Utility::sendLocalReply(*decoder_callbacks_, stream_destroyed_, code, body)
sendLocalReply(s, is_reset, code, body) ==
  [s EXCEPT !.local_replies =
              Append(@, [is_reset |-> is_reset, code |-> code, body |-> body]),
            !.last.replies = @ + 1]

\* requestError() that does not hand the destroyed flag over
requestError_IgnoresDestroyed(s) ==
  sendLocalReply(s, FALSE, s.error_code_, s.error_messgae_)

requestError(s) ==
  sendLocalReply(s, s.stream_destroyed_, s.error_code_, s.error_messgae_)

\* encoder_callbacks_->addEncodedData(data, false): the host takes the bytes
addEncodedData(s, data) ==
  [s EXCEPT !.encoded_data = Append(@, data), !.last.added = Append(@, data)]

\* decoder_callbacks_->addDecodedData(data, false)
addDecodedData(s, data) ==
  [s EXCEPT !.decoded_data = Append(@, data), !.last.added = Append(@, data)]

removeContentType(s) ==
  WithHeaders(s, [Headers(s) EXCEPT !.content_type = FALSE])

\* responseError() that leaves the upstream's Content-Type in place
responseError_KeepsContentType(s) ==
  LET data == s.error_messgae_
      h == [Headers(s) EXCEPT !.status = s.error_code_,
                              !.content_length = Len(data)]
  IN addEncodedData(WithHeaders(s, h), data)

responseError(s) ==
  LET data == s.error_messgae_
      h == [Headers(s) EXCEPT !.status = s.error_code_,
                              !.content_type = FALSE,
                              !.content_length = Len(data)]
  IN addEncodedData(WithHeaders(s, h), data)

\* Transformer::transform(*header_map_, body): o is what this call does.
\* A replaced body comes with its Content-Length.
transform(s, body, o) ==
  LET h == [Headers(s) EXCEPT
              !.transformed = TRUE,
              !.content_length = IF o.replace THEN Len(o.body) ELSE @]
  IN [ s |-> WithHeaders(s, h),
       body |-> IF o.replace THEN o.body ELSE body ]

transformRequest(s, o) ==
  LET s0 == [s EXCEPT !.n_transformRequest = @ + 1,
                      !.last.transformed = TRUE]
      t == transform(s0, s0.request_body_, o)
      s1 == CASE o.kind = "ok" ->
                   IF Len(t.body) > 0
                   \* the host moves the bytes out of request_body_
                   THEN [addDecodedData(t.s, t.body)
                           EXCEPT !.request_body_ = ""]
                   ELSE removeContentType(
                          [t.s EXCEPT !.request_body_ = t.body])
              [] o.kind = "parse_error" -> error(s0, JsonParseError, o.what)
              [] o.kind = "runtime_error" ->
                   error(s0, TemplateParseError, o.what)
  IN IF is_error(s1) THEN requestError(s1) ELSE s1

transformResponse(s, o) ==
  LET s0 == [s EXCEPT !.n_transformResponse = @ + 1,
                      !.last.transformed = TRUE]
      t == transform(s0, s0.response_body_, o)
      s1 == CASE o.kind = "ok" ->
                   IF Len(t.body) > 0
                   \* the host moves the bytes out of response_body_
                   THEN [addEncodedData(t.s, t.body)
                           EXCEPT !.response_body_ = ""]
                   ELSE removeContentType(
                          [t.s EXCEPT !.response_body_ = t.body])
              [] o.kind = "parse_error" -> error(s0, JsonParseError, o.what)
              [] o.kind = "runtime_error" ->
                   error(s0, TemplateParseError, o.what)
  IN IF is_error(s1) THEN responseError(s1) ELSE s1

getTransformFromRoute(s, r, key) ==
  IF ~r.present THEN Null
  ELSE IF ~r.entry THEN Null
  ELSE
    LET value == metadataValue(r, key) IN
    IF ~s.functional_
    THEN IF value.kind = "kStringValue"
         THEN IF value.str = "" THEN Null ELSE getTranformation(value.str)
         ELSE Null
    ELSE IF s.current_function_ = NoFunction THEN Null
    ELSE IF value.kind # "kStructValue" THEN Null
    ELSE IF ~HasField(value.fields, r.clusterName) THEN Null
    ELSE
      LET functions_value == FieldOf(value.fields, r.clusterName) IN
      IF functions_value.kind # "kStructValue" THEN Null
      ELSE IF ~HasField(functions_value.fields, s.current_function_) THEN Null
      ELSE
        LET transformation_value ==
              FieldOf(functions_value.fields, s.current_function_) IN
        IF transformation_value.kind # "kStringValue" THEN Null
        ELSE getTranformation(transformation_value.str)

\* checkRequestActive() that records the miss without the local reply
checkRequestActive_NoReply(s) ==
  LET s1 == [s EXCEPT !.request_transformation_ =
                        getTransformFromRoute(s, s.route,
                                              REQUEST_TRANSFORMATION)]
  IN IF s1.functional_ /\ s1.request_transformation_ = Null
     THEN error(s1, TransformationNotFound, "")
     ELSE s1

checkRequestActive(s) ==
  LET s1 == [s EXCEPT !.request_transformation_ =
                        getTransformFromRoute(s, s.route,
                                              REQUEST_TRANSFORMATION)]
  IN IF s1.functional_ /\ s1.request_transformation_ = Null
     THEN requestError(error(s1, TransformationNotFound, ""))
     ELSE s1

checkResponseActive(s) ==
  [s EXCEPT !.response_transformation_ =
              getTransformFromRoute(s, s.route, RESPONSE_TRANSFORMATION)]

\* decodeHeaders() that lets the headers go before the body is complete
decodeHeaders_ContinuesEarly(s, end_stream, o) ==
  LET s1 == checkRequestActive(s) IN
  IF is_error(s1) THEN Return(s1, StopIteration)
  ELSE IF ~requestActive(s1) THEN Return(s1, Continue)
  ELSE
    LET s2 == [s1 EXCEPT !.header_map_ = "request"] IN
    IF end_stream
    THEN LET s3 == transformRequest(s2, o)
         IN Return(s3, IF is_error(s3) THEN StopIteration ELSE Continue)
    ELSE Return(s2, Continue)

decodeHeaders(s, end_stream, o) ==
  LET s1 == checkRequestActive(s) IN
  IF is_error(s1) THEN Return(s1, StopIteration)
  ELSE IF ~requestActive(s1) THEN Return(s1, Continue)
  ELSE
    LET s2 == [s1 EXCEPT !.header_map_ = "request"] IN
    IF end_stream
    THEN LET s3 == transformRequest(s2, o)
         IN Return(s3, IF is_error(s3) THEN StopIteration ELSE Continue)
    ELSE Return(s2, StopIteration)

\* decodeData() that transforms on every chunk instead of on end_stream
decodeData_TransformsEveryChunk(s, data, end_stream, o) ==
  IF ~requestActive(s) THEN Return(s, Continue)
  ELSE
    LET s1 == [s EXCEPT !.request_body_ = @ \o data, !.last.data_after = ""]
    IN
    IF s1.decoder_buffer_limit_ # 0
         /\ Len(s1.request_body_) > s1.decoder_buffer_limit_
    THEN LET s2 == [s1 EXCEPT !.request_overflowed = TRUE,
                              !.last.overflow = TRUE]
         IN Return(requestError(error(s2, PayloadTooLarge, "")),
                   StopIterationNoBuffer)
    ELSE LET s3 == transformRequest(s1, o)
         IN Return(s3, IF is_error(s3) THEN StopIterationNoBuffer
                       ELSE Continue)

\* decodeData() whose cap also applies when the limit is 0
decodeData_CapsAtZero(s, data, end_stream, o) ==
  IF ~requestActive(s) THEN Return(s, Continue)
  ELSE
    LET s1 == [s EXCEPT !.request_body_ = @ \o data, !.last.data_after = ""]
    IN
    IF Len(s1.request_body_) > s1.decoder_buffer_limit_
    THEN LET s2 == [s1 EXCEPT !.request_overflowed = TRUE,
                              !.last.overflow = TRUE]
         IN Return(requestError(error(s2, PayloadTooLarge, "")),
                   StopIterationNoBuffer)
    ELSE IF end_stream
    THEN LET s3 == transformRequest(s1, o)
         IN Return(s3, IF is_error(s3) THEN StopIterationNoBuffer
                       ELSE Continue)
    ELSE Return(s1, StopIterationNoBuffer)

decodeData(s, data, end_stream, o) ==
  IF ~requestActive(s) THEN Return(s, Continue)
  ELSE
    LET s1 == [s EXCEPT !.request_body_ = @ \o data, !.last.data_after = ""]
    IN
    IF s1.decoder_buffer_limit_ # 0
         /\ Len(s1.request_body_) > s1.decoder_buffer_limit_
    THEN LET s2 == [s1 EXCEPT !.request_overflowed = TRUE,
                              !.last.overflow = TRUE]
         IN Return(requestError(error(s2, PayloadTooLarge, "")),
                   StopIterationNoBuffer)
    ELSE IF end_stream
    THEN LET s3 == transformRequest(s1, o)
         IN Return(s3, IF is_error(s3) THEN StopIterationNoBuffer
                       ELSE Continue)
    ELSE Return(s1, StopIterationNoBuffer)

decodeTrailers(s, o) ==
  LET s1 == IF requestActive(s) THEN transformRequest(s, o) ELSE s
  IN Return(s1, IF is_error(s1) THEN StopIteration ELSE Continue)

encodeHeaders(s, end_stream, o) ==
  LET s1 == checkResponseActive(s) IN
  IF ~responseActive(s1) THEN Return(s1, Continue)
  ELSE
    LET s2 == [s1 EXCEPT !.header_map_ = "response"] IN
    IF end_stream
    THEN Return(transformResponse(s2, o), Continue)
    ELSE Return(s2, StopIteration)

encodeData(s, data, end_stream, o) ==
  IF ~responseActive(s) THEN Return(s, Continue)
  ELSE
    LET s1 == [s EXCEPT !.response_body_ = @ \o data, !.last.data_after = ""]
    IN
    IF s1.encoder_buffer_limit_ # 0
         /\ Len(s1.response_body_) > s1.encoder_buffer_limit_
    THEN LET s2 == [s1 EXCEPT !.response_overflowed = TRUE,
                              !.last.overflow = TRUE]
         IN Return(responseError(error(s2, PayloadTooLarge, "")), Continue)
    ELSE IF end_stream
    THEN Return(transformResponse(s1, o), Continue)
    ELSE Return(s1, StopIterationNoBuffer)

encodeTrailers(s, o) ==
  LET s1 == IF responseActive(s) THEN transformResponse(s, o) ELSE s
  IN Return(s1, Continue)

onDestroy(s) ==
  [resetInternalState(s) EXCEPT !.stream_destroyed_ = TRUE]

----------------------------------------------------------------------------
(* The stream: Init is the filter after construction and                   *)
(* set{De,En}coderFilterCallbacks; each action is one call by the host.    *)
(* The host makes the callbacks of a direction in order (headers, data,    *)
(* trailers; nothing after end_stream) and starts the response only after  *)
(* the request headers.  onDestroy may run while a callback that called    *)
(* into the host is still on the stack, so callbacks may follow it.        *)

\* note whether the callback that is returning raised an error on the
\* request path
Observe(s) ==
  [s EXCEPT !.request_error_seen =
              @ \/ (s.last.dir = "decode" /\ s.last.raised)]

NoCall ==
  [ cb |-> "", dir |-> "", end_stream |-> FALSE, chunk |-> "",
    data_after |-> "", ret |-> "", transformed |-> FALSE, raised |-> FALSE,
    overflow |-> FALSE, replies |-> 0, added |-> <<>> ]

\* the filter model hands transform's outcome in as an input: no
\* InjaTransformer is loaded and no message is given to one
NotLoaded == "not loaded"
NoTransformation == [body_transformation_case |-> "BODY_TRANSFORMATION_NOT_SET"]
NoTransform == [outcome |-> "no transform"]
NoGenerator == [stream |-> <<>>, next |-> 1]
InjaIdle ==
  /\ transformation_ = NoTransformation
  /\ merged_extractors_to_body_ = FALSE
  /\ loaded = NotLoaded
  /\ msg_header_map = <<>>
  /\ msg_body = ""
  /\ dynamic_metadata = <<>>
  /\ n_parse = 0
  /\ n_messages = 0
  /\ tr = NoTransform
  /\ rng_ = NoGenerator
  /\ environ_ = <<>>
\* no substring call and no NATS request is under way
NoHandlerCall == [op |-> "none"]
SubstringIdle ==
  /\ sub_args = <<>>
  /\ sub_result = <<>>
NatsIdle ==
  /\ request_per_inbox = <<>>
  /\ nats_last = NoHandlerCall

Init ==
  /\ functional_ \in BOOLEAN
  /\ current_function_ = NoFunction
  /\ error_ = NoError
  /\ error_code_ = CodeOK
  /\ error_messgae_ = ""
  /\ request_body_ = ""
  /\ response_body_ = ""
  /\ header_map_ = Null
  /\ stream_destroyed_ = FALSE
  /\ request_transformation_ = Null
  /\ response_transformation_ = Null
  /\ decoder_buffer_limit_ \in {0, CapLimit}
  /\ encoder_buffer_limit_ \in {0, CapLimit}
  /\ route \in Routes(functional_)
  /\ accessor_function \in IF functional_ THEN {NoFunction, "f1"}
                           ELSE {NoFunction}
  /\ request_headers = HeaderMap(0)
  /\ response_headers = HeaderMap(CodeOK)
  /\ decoded_data = <<>>
  /\ encoded_data = <<>>
  /\ local_replies = <<>>
  /\ decode_phase = IF functional_ THEN "new" ELSE "init"
  /\ encode_phase = "init"
  /\ decode_data_calls = 0
  /\ encode_data_calls = 0
  /\ n_transformRequest = 0
  /\ n_transformResponse = 0
  /\ request_overflowed = FALSE
  /\ response_overflowed = FALSE
  /\ request_error_seen = FALSE
  /\ last = NoCall
  /\ InjaIdle
  /\ SubstringIdle
  /\ NatsIdle

\* the functional filter base hands the accessor over before decodeHeaders
RetrieveFunction ==
  /\ decode_phase = "new"
  /\ current_function_' = accessor_function
  /\ decode_phase' = "init"
  /\ UNCHANGED <<functional_, error_, error_code_, error_messgae_,
                 request_body_, response_body_, header_map_,
                 stream_destroyed_, request_transformation_,
                 response_transformation_, decoder_buffer_limit_,
                 encoder_buffer_limit_, route, accessor_function,
                 request_headers, response_headers, decoded_data,
                 encoded_data, local_replies, encode_phase,
                 decode_data_calls, encode_data_calls, obs_vars, inja_vars,
                 aux_vars>>

DecodeHeaders ==
  /\ decode_phase = "init"
  /\ \E end_stream \in BOOLEAN, o \in TransformOutcomes :
       /\ Commit(Observe(decodeHeaders(
            Begin("decodeHeaders", "decode", end_stream, ""), end_stream, o)))
       /\ decode_phase' = IF end_stream THEN "ended" ELSE "open"
  /\ UNCHANGED <<accessor_function, encode_phase, decode_data_calls,
                 encode_data_calls>>

DecodeData ==
  /\ decode_phase = "open"
  /\ decode_data_calls + encode_data_calls < MaxDataCalls
  /\ \E data \in Chunks("d"), end_stream \in BOOLEAN, o \in TransformOutcomes :
       /\ Commit(Observe(decodeData(
            Begin("decodeData", "decode", end_stream, data),
            data, end_stream, o)))
       /\ decode_phase' = IF end_stream THEN "ended" ELSE "open"
  /\ decode_data_calls' = decode_data_calls + 1
  /\ UNCHANGED <<accessor_function, encode_phase, encode_data_calls>>

DecodeTrailers ==
  /\ decode_phase = "open"
  /\ \E o \in TransformOutcomes :
       Commit(Observe(decodeTrailers(
         Begin("decodeTrailers", "decode", TRUE, ""), o)))
  /\ decode_phase' = "ended"
  /\ UNCHANGED <<accessor_function, encode_phase, decode_data_calls,
                 encode_data_calls>>

EncodeHeaders ==
  /\ decode_phase \in {"open", "ended"}
  /\ encode_phase = "init"
  /\ \E end_stream \in BOOLEAN, o \in TransformOutcomes :
       /\ Commit(Observe(encodeHeaders(
            Begin("encodeHeaders", "encode", end_stream, ""), end_stream, o)))
       /\ encode_phase' = IF end_stream THEN "ended" ELSE "open"
  /\ UNCHANGED <<accessor_function, decode_phase, decode_data_calls,
                 encode_data_calls>>

EncodeData ==
  /\ encode_phase = "open"
  /\ decode_data_calls + encode_data_calls < MaxDataCalls
  /\ \E data \in Chunks("u"), end_stream \in BOOLEAN, o \in TransformOutcomes :
       /\ Commit(Observe(encodeData(
            Begin("encodeData", "encode", end_stream, data),
            data, end_stream, o)))
       /\ encode_phase' = IF end_stream THEN "ended" ELSE "open"
  /\ encode_data_calls' = encode_data_calls + 1
  /\ UNCHANGED <<accessor_function, decode_phase, decode_data_calls>>

EncodeTrailers ==
  /\ encode_phase = "open"
  /\ \E o \in TransformOutcomes :
       Commit(Observe(encodeTrailers(
         Begin("encodeTrailers", "encode", TRUE, ""), o)))
  /\ encode_phase' = "ended"
  /\ UNCHANGED <<accessor_function, decode_phase, decode_data_calls,
                 encode_data_calls>>

OnDestroy ==
  /\ ~stream_destroyed_
  /\ Commit(onDestroy(Begin("onDestroy", "", FALSE, "")))
  /\ UNCHANGED <<accessor_function, decode_phase, encode_phase,
                 decode_data_calls, encode_data_calls>>

Next ==
  \/ RetrieveFunction
  \/ DecodeHeaders
  \/ DecodeData
  \/ DecodeTrailers
  \/ EncodeHeaders
  \/ EncodeData
  \/ EncodeTrailers
  \/ OnDestroy

Spec == Init /\ [][Next]_vars

----------------------------------------------------------------------------
(* Steps and cases the properties speak about.                             *)

\* the step is a decode (resp. encode) callback
DecodeStep ==
  /\ decode_phase # "new"
  /\ <<decode_phase, decode_data_calls>>' # <<decode_phase, decode_data_calls>>
EncodeStep ==
  <<encode_phase, encode_data_calls>>' # <<encode_phase, encode_data_calls>>

\* direct mode: the value under key is not a non-empty string that names a
\* registered Transformation
InactiveByRoute(key) ==
  \/ ~route.present
  \/ ~route.entry
  \/ metadataValue(route, key).kind # "kStringValue"
  \/ metadataValue(route, key).str \notin Registry

\* functional mode: no function name, or no entry for the route's cluster
\* or for the function under request_transformation
FunctionalMiss ==
  \/ accessor_function = NoFunction
  \/ /\ route.present /\ route.entry
     /\ route.request_transformation.kind = "kStructValue"
     /\ \/ ~HasField(route.request_transformation.fields, route.clusterName)
        \/ LET c == FieldOf(route.request_transformation.fields,
                            route.clusterName)
           IN c.kind = "kStructValue"
                /\ ~HasField(c.fields, accessor_function)

----------------------------------------------------------------------------
(* C1: once the accumulated bytes of a direction have exceeded its cap,    *)
(* PayloadTooLarge is recorded by the callback that saw the overflow and   *)
(* the Transformation of that direction is not invoked, neither by that    *)
(* callback nor by any later one.                                          *)
C1_NoTransformAfterOverflow ==
  [][ /\ request_overflowed' =>
           /\ n_transformRequest' = n_transformRequest
           /\ (~request_overflowed => error_' = PayloadTooLarge)
      /\ response_overflowed' =>
           /\ n_transformResponse' = n_transformResponse
           /\ (~response_overflowed => error_' = PayloadTooLarge) ]_vars

(* C2: after an accumulator has exceeded its cap both accumulators are     *)
(* empty, and stay empty for the rest of the stream.                       *)
C2_AccumulatorsStayEmpty ==
  (request_overflowed \/ response_overflowed)
    => (request_body_ = "" /\ response_body_ = "")

(* C3: transformRequest and transformResponse each run at most once on a   *)
(* stream, and only inside a callback of their direction that observes     *)
(* end-of-stream (headers or data with end_stream, or trailers).           *)
C3_TransformOnceAtEndOfStream ==
  /\ n_transformRequest <= 1
  /\ n_transformResponse <= 1
  /\ last.transformed =>
       /\ last.end_stream
       /\ last.cb \in {"decodeHeaders", "decodeData", "decodeTrailers",
                       "encodeHeaders", "encodeData", "encodeTrailers"}
  /\ (n_transformRequest = 1) => decode_phase = "ended"
  /\ (n_transformResponse = 1) => encode_phase = "ended"

C3_Witness ==
  /\ n_transformRequest = 1
  /\ n_transformResponse = 1
  /\ last.transformed
  /\ last.cb = "encodeData"

(* C4: in functional mode, with no function name or no matching cluster or *)
(* function entry, decodeHeaders records TransformationNotFound, sends the *)
(* 404 local reply and returns StopIteration, and transformRequest is      *)
(* never invoked on the stream.                                            *)
C4_FunctionalMissIsNotFound ==
  (functional_ /\ FunctionalMiss /\ decode_phase \in {"open", "ended"}) =>
    /\ n_transformRequest = 0
    /\ Len(local_replies) >= 1
    /\ local_replies[1].code = 404
    /\ local_replies[1].body = "transformation for function not found"
    /\ last.cb = "decodeHeaders" =>
         /\ last.ret = StopIteration
         /\ error_ = TransformationNotFound
         /\ last.replies = 1

C4_Witness ==
  /\ functional_
  /\ accessor_function = "f1"
  /\ FunctionalMiss
  /\ decode_phase = "ended"
  /\ last.cb = "decodeTrailers"

(* C5: once an error has been recorded on the request path a local reply   *)
(* has been sent and no decode callback returns Continue any more.         *)
C5_NoContinueAfterRequestError ==
  request_error_seen =>
    /\ Len(local_replies) >= 1
    /\ last.dir = "decode" => last.ret # Continue

C7_Table(kind) ==
  CASE kind = PayloadTooLarge -> {<<413, "payload too large">>}
    [] kind = JsonParseError ->
         {<<400, "bad request: " \o o.what>> :
            o \in {x \in TransformOutcomes : x.kind = "parse_error"}}
    [] kind = TemplateParseError ->
         {<<400, "bad request: " \o o.what>> :
            o \in {x \in TransformOutcomes : x.kind = "runtime_error"}}
    [] kind = TransformationNotFound ->
         {<<404, "transformation for function not found">>}

(* C7: the recorded status and body are those the table gives the recorded *)
(* error kind (413 'payload too large', 400 'bad request: <detail>', 404   *)
(* 'transformation for function not found'), and what a callback surfaces, *)
(* by local reply or in the response, is the recorded status and body.     *)
C7_ErrorMapping ==
  /\ is_error(Self) => <<error_code_, error_messgae_>> \in C7_Table(error_)
  /\ \A i \in DOMAIN local_replies :
       \E k \in ErrorKinds :
         <<local_replies[i].code, local_replies[i].body>> \in C7_Table(k)
  /\ last.replies > 0 =>
       /\ local_replies[Len(local_replies)].code = error_code_
       /\ local_replies[Len(local_replies)].body = error_messgae_
  /\ (last.dir = "encode" /\ is_error(Self)
        /\ (last.transformed \/ last.overflow)) =>
       /\ response_headers.status = error_code_
       /\ last.added # <<>>
       /\ last.added[Len(last.added)] = error_messgae_

C7_Witness ==
  /\ error_ = JsonParseError
  /\ last.replies = 1
  /\ local_replies[Len(local_replies)].code = 400
  /\ local_replies[Len(local_replies)].body = "bad request: parse error"

(* C8: in direct mode, a direction whose metadata value is not a non-empty *)
(* string naming a registered Transformation is not active: each of its    *)
(* callbacks returns Continue and leaves the header maps, the data buffer, *)
(* both accumulators and the error slot unchanged.                         *)
C8_InactivePassesThrough ==
  [][ /\ (DecodeStep /\ ~functional_
            /\ InactiveByRoute(REQUEST_TRANSFORMATION)) =>
           /\ last'.ret = Continue
           /\ last'.data_after = last'.chunk
           /\ UNCHANGED <<request_headers, response_headers, request_body_,
                          response_body_, error_, error_code_,
                          error_messgae_>>
      /\ (EncodeStep /\ ~functional_
            /\ InactiveByRoute(RESPONSE_TRANSFORMATION)) =>
           /\ last'.ret = Continue
           /\ last'.data_after = last'.chunk
           /\ UNCHANGED <<request_headers, response_headers, request_body_,
                          response_body_, error_, error_code_,
                          error_messgae_>> ]_vars

\* what every data callback of an active direction does with the chunk: the
\* host's buffer is left empty and the accumulator grows by the chunk,
\* unless the chunk takes it over the cap
C9_ChunkMoved(before, after) ==
  /\ last'.data_after = ""
  /\ ~last'.overflow => after = before \o last'.chunk

C10_DestroyedSuppressesReply ==
  [][ /\ stream_destroyed_ => stream_destroyed_'
      /\ (~stream_destroyed_ /\ stream_destroyed_') =>
           (request_body_' = "" /\ response_body_' = "")
      /\ stream_destroyed_ =>
           \A i \in DOMAIN local_replies' :
             i > Len(local_replies) => local_replies'[i].is_reset
      /\ ~stream_destroyed_ =>
           \A i \in DOMAIN local_replies' :
             i > Len(local_replies) => ~local_replies'[i].is_reset ]_vars

C10_Witness ==
  /\ stream_destroyed_
  /\ last.dir = "decode"
  /\ last.replies = 1
  /\ local_replies[Len(local_replies)].is_reset
  /\ error_ = TemplateParseError

----------------------------------------------------------------------------
(* InjaTransformer (source/extensions/filters/http/transformation/         *)
(* inja_transformer.cc): one Transformation is loaded, then transform is   *)
(* called on messages.  Strings are std::string, header maps are sequences *)
(* of key/value entries in insertion order.                                *)

\* ---- strings
CharAt(s, i) == SubSeq(s, i, i)

\* std::string_view::find of a one-character needle: 0 stands for npos
RECURSIVE FindFrom(_, _, _)
FindFrom(s, c, i) ==
  IF i > Len(s) THEN 0
  ELSE IF CharAt(s, i) = c THEN i
  ELSE FindFrom(s, c, i + 1)
find(s, c) == FindFrom(s, c, 1)

\* absl::ascii_tolower
LowerCase ==
  [A |-> "a", B |-> "b", C |-> "c", D |-> "d", E |-> "e", F |-> "f",
   G |-> "g", H |-> "h", I |-> "i", J |-> "j", K |-> "k", L |-> "l",
   M |-> "m", N |-> "n", O |-> "o", P |-> "p", Q |-> "q", R |-> "r",
   S |-> "s", T |-> "t", U |-> "u", V |-> "v", W |-> "w", X |-> "x",
   Y |-> "y", Z |-> "z"]
ToLower(c) == IF c \in DOMAIN LowerCase THEN LowerCase[c] ELSE c

\* Http::LowerCaseString(name)
RECURSIVE LowerCaseString(_)
LowerCaseString(name) ==
  IF name = "" THEN ""
  ELSE ToLower(CharAt(name, 1)) \o LowerCaseString(SubSeq(name, 2, Len(name)))

StartsWith(s, p) == Len(s) >= Len(p) /\ SubSeq(s, 1, Len(p)) = p
\* std::string::find of a needle from position i on: 0 stands for npos
RECURSIVE FindString(_, _, _)
FindString(s, p, i) ==
  IF i + Len(p) - 1 > Len(s) THEN 0
  ELSE IF SubSeq(s, i, i + Len(p) - 1) = p THEN i
  ELSE FindString(s, p, i + 1)
EndsWith(s, p) ==
  Len(s) >= Len(p) /\ SubSeq(s, Len(s) - Len(p) + 1, Len(s)) = p

\* the decimal text of a length (fmt of uint64_t)
Digits == "0123456789"
RECURSIVE ToDecimal(_)
ToDecimal(n) ==
  IF n < 10 THEN CharAt(Digits, n + 1)
  ELSE ToDecimal(n \div 10) \o CharAt(Digits, (n % 10) + 1)

\* ---- Http::HeaderMap
ContentLength == "content-length"
\* headers the map keeps in an inline slot: one entry, addCopy joins values
InlineHeaders == {ContentLength}
HeaderEntry(key, value) == [key |-> key, value |-> value]
\* getHeader(header_map, key): the values under the key, in order
EntriesOf(hm, key) == SelectSeq(hm, LAMBDA h : h.key = key)
getHeader(hm, key) == EntriesOf(hm, LowerCaseString(key))
remove(hm, key) == SelectSeq(hm, LAMBDA h : h.key # key)
addCopy(hm, key, value) ==
  IF key \in InlineHeaders /\ \E i \in DOMAIN hm : hm[i].key = key
    THEN [i \in DOMAIN hm |->
            IF hm[i].key = key
              THEN HeaderEntry(key, hm[i].value \o "," \o value)
              ELSE hm[i]]
    ELSE Append(hm, HeaderEntry(key, value))
removeContentLength(hm) == remove(hm, ContentLength)
\* the inline slot is overwritten, or filled when it is empty
setContentLength(hm, n) ==
  IF \E i \in DOMAIN hm : hm[i].key = ContentLength
    THEN [i \in DOMAIN hm |->
            IF hm[i].key = ContentLength
              THEN HeaderEntry(ContentLength, ToDecimal(n))
              ELSE hm[i]]
    ELSE Append(hm, HeaderEntry(ContentLength, ToDecimal(n)))
\* the values under a key, as a sequence of strings
ValuesOf(hm, key) ==
  [i \in DOMAIN EntriesOf(hm, key) |-> EntriesOf(hm, key)[i].value]

\* ---- nlohmann::json
JsonNull == [type |-> "null", str |-> "", obj |-> <<>>]
JsonString(s) == [type |-> "string", str |-> s, obj |-> <<>>]
JsonNumber(literal) == [type |-> "number", str |-> literal, obj |-> <<>>]
JsonObject(members) == [type |-> "object", str |-> "", obj |-> members]
EmptyObject == JsonObject(<<>>)
is_object(j) == j.type = "object"
\* an object is a std::map: dump walks the keys in sorted order
SortedKeys == <<"", "auth", "e", "token">>
Member(key, j) == [k \in {key} |-> j]
\* members with one key added or replaced
WithMember(members, key, j) ==
  [k \in DOMAIN members \cup {key} |-> IF k = key THEN j ELSE members[k]]

\* json::parse(text) over the bodies the messages carry
JsonTexts ==
  [text \in {"{}", "{\"auth\":1}", "1"} |->
     CASE text = "{}" -> EmptyObject
       [] text = "{\"auth\":1}" -> JsonObject(Member("auth", JsonNumber("1")))
       [] text = "1" -> JsonNumber("1")]
ParseFails(text) == text \notin DOMAIN JsonTexts
json_parse(text) == JsonTexts[text]

\* json::dump()
RECURSIVE dump(_)
RECURSIVE DumpMembers(_, _, _)
DumpMembers(members, i, first) ==
  IF i > Len(SortedKeys) THEN ""
  ELSE IF SortedKeys[i] \in DOMAIN members
    THEN (IF first THEN "" ELSE ",") \o "\"" \o SortedKeys[i] \o "\":"
         \o dump(members[SortedKeys[i]]) \o DumpMembers(members, i + 1, FALSE)
    ELSE DumpMembers(members, i + 1, first)
dump(j) ==
  CASE j.type = "null" -> "null"
    [] j.type = "string" -> "\"" \o j.str \o "\""
    [] j.type = "number" -> j.str
    [] j.type = "object" -> "{" \o DumpMembers(j.obj, 1, TRUE) \o "}"

\* ---- std::regex over the patterns the extractors use: ".*", a literal,
\* or a literal prefix followed by the group "(.*)"
RECURSIVE CountFrom(_, _, _)
CountFrom(s, c, i) ==
  IF i > Len(s) THEN 0
  ELSE (IF CharAt(s, i) = c THEN 1 ELSE 0) + CountFrom(s, c, i + 1)
\* std::regex::mark_count(): the number of sub groups
mark_count(regex) == CountFrom(regex, "(", 1)
NoMatch == <<>>
\* std::regex_match: the match results (whole match first), or NoMatch
regex_match(value, regex) ==
  IF regex = ".*" THEN <<value>>
  ELSE IF EndsWith(regex, "(.*)")
    THEN LET prefix == SubSeq(regex, 1, Len(regex) - 4)
         IN IF StartsWith(value, prefix)
              THEN <<value, SubSeq(value, Len(prefix) + 1, Len(value))>>
              ELSE NoMatch
  ELSE IF value = regex THEN <<value>> ELSE NoMatch

\* ---- exceptions a transform can leave with
NoException == "none"
JsonParseException == "nlohmann::json::parse_error"
JsonTypeException == "nlohmann::json::type_error"
EnvoyException == "EnvoyException"

\* envoy::api::v2::filter::http::Extraction
Extraction(header, has_body, regex, subgroup) ==
  [header |-> header, has_body |-> has_body, regex |-> regex,
   subgroup |-> subgroup]

\* Extractor::Extractor: TRUE when the constructor throws
Extractor_throws(extractor) == mark_count(extractor.regex) < extractor.subgroup

\* Extractor::extractValue
extractValue(extractor, value) ==
  LET regex_result == regex_match(value, extractor.regex)
  IN IF regex_result # NoMatch
       THEN IF extractor.subgroup >= Len(regex_result)
              THEN ""
              ELSE regex_result[extractor.subgroup + 1]
       ELSE ""

\* the get_body lambda of transform: the buffer's text, cached at first use
NoString == <<>>
Touch(s) ==
  IF s.string_body = NoString THEN [s EXCEPT !.string_body = <<s.body>>]
  ELSE s
get_body(s) == Touch(s).string_body[1]

\* Extractor::extract: the extracted text
extract(extractor, s) ==
  IF extractor.has_body THEN extractValue(extractor, get_body(s))
  ELSE LET header_entries == getHeader(s.header_map, extractor.header)
       IN IF header_entries = <<>> THEN ""
          ELSE extractValue(extractor, header_entries[1].value)

\* ---- inja templates
Dot == "ElementNotation::Dot"
Pointer == "ElementNotation::Pointer"
\* TransformerInstance::TransformerInstance: the callbacks it registers,
\* by name and number of arguments
RegisteredCallbacks ==
  {<<"header", 1>>, <<"request_header", 1>>, <<"extraction", 1>>,
   <<"context", 0>>, <<"body", 0>>, <<"env", 1>>, <<"clusterMetadata", 1>>,
   <<"base64_encode", 1>>, <<"base64_decode", 1>>, <<"substring", 2>>,
   <<"substring", 3>>, <<"replace_with_random", 2>>}
TransformerInstance == [callbacks |-> RegisteredCallbacks, notation |-> Dot]
\* TransformerInstance::empty_transformer_instance
empty_transformer_instance == TransformerInstance
set_element_notation(instance, notation) ==
  [instance EXCEPT !.notation = notation]

\* the expressions the templates use between "{{" and "}}"
FunctionCall(fn, args) == [fn |-> fn, args |-> args]
Expressions ==
  [text \in {"body()", "context()", "header(\"x-a\")", "extraction(\"e\")",
             "header()", "nofn()",
             "replace_with_random(\"aXa\", \"X\")",
             "replace_with_random(\"XbX\", \"X\")",
             "replace_with_random(\"c\", \"Y\")",
             "request_header(\"x-a\")", "extraction(\"u\")",
             "env(\"K\")", "env(\"Z\")", "clusterMetadata(\"k\")"} |->
     CASE text = "body()" -> FunctionCall("body", <<>>)
       [] text = "request_header(\"x-a\")" ->
            FunctionCall("request_header", <<"x-a">>)
       [] text = "extraction(\"u\")" -> FunctionCall("extraction", <<"u">>)
       [] text = "env(\"K\")" -> FunctionCall("env", <<"K">>)
       [] text = "env(\"Z\")" -> FunctionCall("env", <<"Z">>)
       [] text = "clusterMetadata(\"k\")" ->
            FunctionCall("clusterMetadata", <<"k">>)
       [] text = "replace_with_random(\"aXa\", \"X\")" ->
            FunctionCall("replace_with_random", <<"aXa", "X">>)
       [] text = "replace_with_random(\"XbX\", \"X\")" ->
            FunctionCall("replace_with_random", <<"XbX", "X">>)
       [] text = "replace_with_random(\"c\", \"Y\")" ->
            FunctionCall("replace_with_random", <<"c", "Y">>)
       [] text = "context()" -> FunctionCall("context", <<>>)
       [] text = "header(\"x-a\")" -> FunctionCall("header", <<"x-a">>)
       [] text = "extraction(\"e\")" -> FunctionCall("extraction", <<"e">>)
       [] text = "header()" -> FunctionCall("header", <<>>)
       [] text = "nofn()" -> FunctionCall("nofn", <<>>)]

ParseError == [kind |-> "parse_error"]
TextNode(text) == [kind |-> "text", text |-> text]
CallNode(call, notation) ==
  [kind |-> "call", fn |-> call.fn, args |-> call.args,
   notation |-> notation]
\* TransformerInstance::parse: the inja::Template, or ParseError when
\* env_.parse throws (an open expression, or a function that is not a
\* registered callback with that number of arguments)
\* a call parses when a callback of that name and arity is registered
ParseCall(instance, call) ==
  IF <<call.fn, Len(call.args)>> \notin instance.callbacks THEN ParseError
  ELSE CallNode(call, instance.notation)
ParseExpression(instance, text) ==
  IF text \notin DOMAIN Expressions THEN ParseError
  ELSE ParseCall(instance, Expressions[text])
\* two expressions with a "-" between them
PairNode(first, second) ==
  [kind |-> "pair", first |-> first, second |-> second]
ParsePair(first, second) ==
  IF "parse_error" \in {first.kind, second.kind} THEN ParseError
  ELSE PairNode(first, second)
\* the text between the outer braces, with "}}-{{" found at mid (0: not)
ParseAt(instance, text, mid) ==
  IF mid = 0 THEN ParseExpression(instance, text)
  ELSE ParsePair(ParseExpression(instance, SubSeq(text, 1, mid - 1)),
                 ParseExpression(instance,
                                 SubSeq(text, mid + 5, Len(text))))
ParseText(instance, text) ==
  ParseAt(instance, text,
          IF text \in DOMAIN Expressions THEN 0
          ELSE FindString(text, "}}-{{", 1))
parse(instance, input) ==
  IF ~StartsWith(input, "{{") THEN TextNode(input)
  ELSE IF Len(input) < 4 \/ ~EndsWith(input, "}}") THEN ParseError
  ELSE ParseText(instance, SubSeq(input, 3, Len(input) - 2))

\* ---- TransformerInstance callbacks and render; s is the state of one
\* transform call, which the instance refers to (header_map_, body_,
\* extractions_ and context_ are references)
header_callback(s, args) ==
  LET header_entries == getHeader(s.header_map, args[1])
  IN IF header_entries = <<>> THEN JsonString("")
     ELSE JsonString(header_entries[1].value)
extracted_callback(s, args) ==
  IF args[1] \in DOMAIN s.extractions
    THEN JsonString(s.extractions[args[1]])
    ELSE JsonString("")
\* a pointer is the empty sequence when null and holds its target otherwise
nullptr == <<>>
PointerTo(target) == <<target>>
Deref(pointer) == pointer[1]
request_header_callback(s, args) ==
  IF s.request_headers_ = nullptr THEN JsonString("")
  ELSE LET header_entries == getHeader(Deref(s.request_headers_), args[1])
       IN IF header_entries = <<>> THEN JsonString("")
          ELSE JsonString(header_entries[1].value)
\* TransformerInstance::env
env_ReturnsKey(s, args) ==
  IF args[1] \in DOMAIN s.environ_ THEN JsonString(s.environ_[args[1]])
  ELSE JsonString(args[1])
env(s, args) ==
  IF args[1] \in DOMAIN s.environ_ THEN JsonString(s.environ_[args[1]])
  ELSE JsonString("")
\* TransformerInstance::cluster_metadata_callback, over metadata whose
\* values are strings and structs: cluster_metadata_ is the set of fields
\* under the filter's namespace
cluster_metadata_callback(s, args) ==
  IF s.cluster_metadata_ = nullptr THEN JsonString("")
  ELSE LET value == IF HasField(Deref(s.cluster_metadata_), args[1])
                      THEN FieldOf(Deref(s.cluster_metadata_), args[1])
                      ELSE NotSet
       IN IF value.kind = "kStringValue" THEN JsonString(value.str)
          ELSE JsonString("")

\* ---- substring: int is IntBits wide and int64_t Int64Bits; the model
\* keeps the two widths apart at a scale its integers can hold
IntBits == 8
Int64Bits == 16
\* the value of an integer in a signed type of that width
Wrap(v, bits) ==
  LET m == v % (2 ^ bits)
  IN IF m >= 2 ^ (bits - 1) THEN m - 2 ^ bits ELSE m
Int64Min == -(2 ^ (Int64Bits - 1))
Int64Max == 2 ^ (Int64Bits - 1) - 1
JsonInteger(n) == [type |-> "integer", str |-> "", obj |-> <<>>, int |-> n]
JsonFloat(literal) == [type |-> "float", str |-> literal, obj |-> <<>>]
\* std::string::substr(pos, count) for pos <= size()
substr(input, pos, count) ==
  SubSeq(input, pos + 1,
         IF count > Len(input) - pos THEN Len(input) ELSE pos + count)
\* TransformerInstance::substring_callback (lines 284-322): the results a
\* build can give.  start + substring_len overflowing int64_t is undefined,
\* and either branch may then be taken
substring_callback(args) ==
  LET input == args[1].str
  IN IF args[2].type # "integer" THEN {JsonString("")}
     ELSE IF Len(args) = 3 /\ args[3].type # "integer"
       THEN {JsonString("")}
     ELSE LET start == Wrap(args[2].int, IntBits)
              substring_len == IF Len(args) = 3 THEN args[3].int ELSE -1
              input_len == Len(input)
              sum == start + substring_len
          IN IF start < 0 \/ start >= input_len THEN {JsonString("")}
             ELSE IF sum > Int64Max
               THEN {JsonString(substr(input, start, input_len - start)),
                     JsonString(substr(input, start, substring_len))}
             ELSE IF substring_len <= 0 \/ sum > input_len
               THEN {JsonString(substr(input, start, input_len - start))}
             ELSE {JsonString(substr(input, start, substring_len))}

\* Random::RandomGenerator::random: the value and the generator after it
random(rng) ==
  [value |-> rng.stream[rng.next],
   rng |-> [rng EXCEPT !.next = (@ % Len(rng.stream)) + 1]]
\* Base64::encode(random, 16, false) of uint64_t random[2] = {low, high}
\* on a little-endian build, for values below 4: the second sextet
\* carries the low bits of byte 0 and the twelfth is the low bits of byte 8
Base64Alphabet ==
  "ABCDEFGHIJKLMNOPQRSTUVWXYZabcdefghijklmnopqrstuvwxyz0123456789+/"
Base64_encode(low, high) ==
  "A" \o CharAt(Base64Alphabet, 16 * low + 1) \o "AAAAAAAAA"
      \o CharAt(Base64Alphabet, high + 1) \o "AAAAAAAAAA"
\* absl::StrReplaceAll(source, {{old, new}}): an empty old is ignored
RECURSIVE StrReplaceAll(_, _, _)
StrReplaceAll(source, old, new) ==
  IF old = "" THEN source
  ELSE LET at == FindString(source, old, 1)
       IN IF at = 0 THEN source
          ELSE SubSeq(source, 1, at - 1) \o new
                 \o StrReplaceAll(
                      SubSeq(source, at + Len(old), Len(source)), old, new)
\* TransformerInstance::random_for_pattern: the instance after the call;
\* the string it returns is the pattern's entry of pattern_replacements_
random_for_pattern_NoMemo(s, pattern) ==
  LET high == random(s.rng_)
      low == random(high.rng)
  IN [s EXCEPT !.rng_ = low.rng,
               !.random_calls = @ + 2,
               !.pattern_replacements_ =
                  WithMember(@, pattern, Base64_encode(low.value, high.value))]
random_for_pattern(s, pattern) ==
  IF pattern \notin DOMAIN s.pattern_replacements_
    THEN LET high == random(s.rng_)
             low == random(high.rng)
         IN [s EXCEPT !.rng_ = low.rng,
                      !.random_calls = @ + 2,
                      !.pattern_replacements_ =
                         WithMember(@, pattern,
                                    Base64_encode(low.value, high.value))]
    ELSE s
\* TransformerInstance::replace_with_random_callback
replace_with_random_callback(s, args) ==
  LET source == args[1]
      to_replace == args[2]
  IN JsonString(StrReplaceAll(
       source, to_replace,
       random_for_pattern(s, to_replace).pattern_replacements_[to_replace]))
\* the value a registered callback returns
Callback(s, fn, args) ==
  CASE fn = "header" -> header_callback(s, args)
    [] fn = "extraction" -> extracted_callback(s, args)
    [] fn = "context" -> s.json_body
    [] fn = "body" -> JsonString(get_body(s))
    [] fn = "replace_with_random" -> replace_with_random_callback(s, args)
    [] fn = "request_header" -> request_header_callback(s, args)
    [] fn = "env" -> env(s, args)
    [] fn = "clusterMetadata" -> cluster_metadata_callback(s, args)
\* inja prints a string as it is and any other value by its dump
Emit(j) == IF j.type = "string" THEN j.str ELSE dump(j)
ReadsBody(input) == input.kind = "call" /\ input.fn = "body"
ReplacesWithRandom(input) ==
  input.kind = "call" /\ input.fn = "replace_with_random"
\* the state after a render in the named step: body() fills the get_body
\* cache and replace_with_random the memo, and what they returned is noted
RECURSIVE Rendered(_, _, _)
Rendered(s, input, step) ==
  IF input.kind = "pair"
    THEN Rendered(Rendered(s, input.first, step), input.second, step)
  ELSE IF ReadsBody(input)
    THEN [Touch(s) EXCEPT
            !.body_reads = Append(@, [step |-> step, text |-> get_body(s)])]
  ELSE IF ReplacesWithRandom(input)
    THEN [random_for_pattern(s, input.args[2]) EXCEPT
            !.random_outputs =
               Append(@, [step |-> step, source |-> input.args[1],
                          pattern |-> input.args[2],
                          output |-> Emit(replace_with_random_callback(
                                            s, input.args))])]
  ELSE s
\* TransformerInstance::render: the output text
RECURSIVE render(_, _)
render(s, input) ==
  IF input.kind = "text" THEN input.text
  ELSE IF input.kind = "pair"
    THEN render(s, input.first) \o "-"
           \o render(Rendered(s, input.first, "render"), input.second)
  ELSE Emit(Callback(s, input.fn, input.args))

\* ---- InjaTransformer::transform, step by step
Throw(s, exception) == [s EXCEPT !.exception = exception]
Running(s) == s.exception = NoException
Step(s, step) == [s EXCEPT !.steps = Append(@, step)]

ParseAsJson == "ParseAsJson"
DontParse == "DontParse"
kBody == "kBody"
kMergeExtractorsToBody == "kMergeExtractorsToBody"
kPassthrough == "kPassthrough"
BODY_TRANSFORMATION_NOT_SET == "BODY_TRANSFORMATION_NOT_SET"

\* lines 492-511: parse the body as JSON
ParseBody_AlwaysIgnores(t, s) ==
  IF ~Running(s) THEN s
  ELSE IF t.parse_body_behavior # DontParse /\ Len(s.body) > 0
    THEN LET s1 == Step(Touch(s), "parse_body")
             bodystring == get_body(s)
         IN IF t.parse_body_behavior = ParseAsJson /\ ~ParseFails(bodystring)
              THEN [s1 EXCEPT !.json_body = json_parse(bodystring)]
              ELSE s1
    ELSE s
ParseBody(t, s) ==
  IF ~Running(s) THEN s
  ELSE IF t.parse_body_behavior # DontParse /\ Len(s.body) > 0
    THEN LET s1 == Step(Touch(s), "parse_body")
             bodystring == get_body(s)
         IN IF t.parse_body_behavior = ParseAsJson
              THEN IF ParseFails(bodystring)
                     THEN IF t.ignore_error_on_parse THEN s1
                          ELSE Throw(s1, JsonParseException)
                     ELSE [s1 EXCEPT !.json_body = json_parse(bodystring)]
              ELSE s1
    ELSE s

\* lines 513-519: the Extractor objects are built from the configuration
ConstructExtractors(t, s) ==
  IF ~Running(s) THEN s
  ELSE IF \E i \in DOMAIN t.extractors :
            Extractor_throws(t.extractors[i].extractor)
    THEN Throw(Step(s, "extractors"), EnvoyException)
    ELSE Step(s, "extractors")

\* lines 530-537: the fields of a name split on "."
RECURSIVE SplitName(_)
SplitName(name_to_split) ==
  LET pos == find(name_to_split, ".")
  IN IF pos = 0 THEN <<name_to_split>>
     ELSE <<SubSeq(name_to_split, 1, pos - 1)>>
          \o SplitName(SubSeq(name_to_split, pos + 1, Len(name_to_split)))

\* json::operator[](key) down a path, then the assignment of a string
\* (lines 535 and 538): null becomes an object, an object gets the member,
\* any other value throws type_error
SetFailed == [type |-> "type_error", str |-> "", obj |-> <<>>]
RECURSIVE SetAt(_, _, _)
SetAt(current, fields, value) ==
  IF current.type \notin {"null", "object"} THEN SetFailed
  ELSE LET members == IF current.type = "null" THEN <<>> ELSE current.obj
           field == fields[1]
           child == IF field \in DOMAIN members THEN members[field]
                    ELSE JsonNull
           below == IF Len(fields) = 1 THEN JsonString(value)
                    ELSE SetAt(child, Tail(fields), value)
       IN IF below = SetFailed THEN SetFailed
          ELSE JsonObject(WithMember(members, field, below))

\* lines 524-541: run the extractors, in the order the map yields them
RECURSIVE Extract(_, _, _)
Extract(t, s, i) ==
  IF ~Running(s) \/ i > Len(t.extractors) THEN s
  ELSE LET name == t.extractors[i].name
           value == extract(t.extractors[i].extractor, s)
           s1 == IF t.extractors[i].extractor.has_body THEN Touch(s) ELSE s
       IN IF t.advanced_templates
            THEN Extract(t, [s1 EXCEPT !.extractions =
                               WithMember(@, name, value)], i + 1)
            ELSE LET set == SetAt(s1.json_body, SplitName(name), value)
                 IN IF set = SetFailed THEN Throw(s1, JsonTypeException)
                    ELSE Extract(t, [s1 EXCEPT !.json_body = set], i + 1)
Extractions(t, s) ==
  IF ~Running(s) THEN s ELSE Extract(t, Step(s, "extract"), 1)

\* ---- compiling the templates of a Transformation
\* instance.parse over a list of template texts, in order, up to and
\* including the first one that throws
RECURSIVE ParseUntilFailure(_, _)
ParsedThen(instance, template, texts) ==
  IF template.kind = "parse_error" THEN <<template>>
  ELSE <<template>> \o ParseUntilFailure(instance, texts)
ParseUntilFailure(instance, texts) ==
  IF texts = <<>> THEN <<>>
  ELSE ParsedThen(instance, parse(instance, Head(texts)), Tail(texts))
Failed(templates) ==
  templates # <<>> /\ templates[Len(templates)].kind = "parse_error"
Texts(entries) == [i \in DOMAIN entries |-> entries[i].text]
\* the try/catch loops over the template fields, in order: a throw ends
\* the function, so the fields after it are not parsed
RECURSIVE ParseFields(_, _)
FieldThen(instance, templates, fields) ==
  IF Failed(templates) THEN <<templates>>
  ELSE <<templates>> \o ParseFields(instance, fields)
ParseFields(instance, fields) ==
  IF fields = <<>> THEN <<>>
  ELSE FieldThen(instance, ParseUntilFailure(instance, Head(fields)),
                 Tail(fields))
RECURSIVE TotalLen(_)
TotalLen(lists) ==
  IF lists = <<>> THEN 0 ELSE Len(Head(lists)) + TotalLen(Tail(lists))
\* what the loops parsed, and failed when the last parse threw
Parsed(templates) ==
  [failed |-> templates # <<>> /\ Failed(templates[Len(templates)]),
   n_parse |-> TotalLen(templates),
   templates |-> templates]

\* InjaTransformer::validate_templates: what it parsed, and failed when it
\* throws EnvoyException
validate_templates_SkipsBody(t) ==
  LET instance == IF t.advanced_templates
                    THEN set_element_notation(empty_transformer_instance,
                                              Pointer)
                    ELSE empty_transformer_instance
  IN Parsed(ParseFields(instance,
       <<Texts(t.headers), Texts(t.headers_to_append),
         Texts(t.dynamic_metadata_values)>>))
validate_templates(t) ==
  LET instance == IF t.advanced_templates
                    THEN set_element_notation(empty_transformer_instance,
                                              Pointer)
                    ELSE empty_transformer_instance
  IN Parsed(ParseFields(instance,
       <<Texts(t.headers), Texts(t.headers_to_append),
         Texts(t.dynamic_metadata_values)>>
       \o IF t.body_transformation_case = kBody THEN <<<<t.body>>>>
          ELSE <<>>))

\* lines 550-626 of transform: the instance and the per-message templates
SoloTransformation == "io.solo.transformation"
\* the templates r of a Transformation become those of the message
WithTemplates(t, s, r) ==
  IF r.failed THEN Throw(s, EnvoyException)
  ELSE [s EXCEPT
          !.headers_templates =
             [i \in DOMAIN t.headers |->
                [key |-> LowerCaseString(t.headers[i].key),
                 template |-> r.templates[1][i]]],
          !.headers_to_remove_templates =
             [i \in DOMAIN t.headers_to_remove |->
                LowerCaseString(t.headers_to_remove[i])],
          !.headers_to_append_templates =
             [i \in DOMAIN t.headers_to_append |->
                [key |-> LowerCaseString(t.headers_to_append[i].key),
                 template |-> r.templates[2][i]]],
          !.dynamic_metadata_templates =
             [i \in DOMAIN t.dynamic_metadata_values |->
                [namespace_ |->
                   IF t.dynamic_metadata_values[i].metadata_namespace = ""
                     THEN SoloTransformation
                     ELSE t.dynamic_metadata_values[i].metadata_namespace,
                 key_ |-> t.dynamic_metadata_values[i].key,
                 template_ |-> r.templates[3][i]]],
          !.body_template =
             IF t.body_transformation_case = kBody
               THEN <<r.templates[4][1]>> ELSE <<>>]
Counted(s, r) == [Step(s, "compile") EXCEPT !.n_parse = @ + r.n_parse]
CompileWith(t, s, r) == WithTemplates(t, Counted(s, r), r)
Compile(t, s) ==
  IF ~Running(s) THEN s
  ELSE
    CompileWith(t, s,
      Parsed(ParseFields(
        IF t.advanced_templates
          THEN set_element_notation(TransformerInstance, Pointer)
          ELSE TransformerInstance,
        <<Texts(t.headers), Texts(t.headers_to_append),
          Texts(t.dynamic_metadata_values)>>
        \o IF t.body_transformation_case = kBody THEN <<<<t.body>>>>
           ELSE <<>>)))

\* ---- the rendering steps of transform
\* lines 629-638: the new body, when there is one
BodyTransform(merged, s) ==
  IF ~Running(s) THEN s
  ELSE IF s.body_template # <<>>
    THEN LET s1 == Rendered(Step(s, "body"), s.body_template[1], "body")
         IN [s1 EXCEPT !.maybe_body = <<render(s, s.body_template[1])>>]
  ELSE IF merged
    THEN [Step(s, "body") EXCEPT !.maybe_body = <<dump(s.json_body)>>]
  ELSE s

\* lines 640-649: dynamic metadata; a key set again replaces the value
\* MessageUtil::keyValueStruct
keyValueStruct(key, value) == {Field(key, StringValue(value))}
\* streamInfo().setDynamicMetadata(name, value): the call is noted
setDynamicMetadata(s, name, value) ==
  [s EXCEPT !.metadata_calls = Append(@, [name |-> name, value |-> value]),
            !.dynamic_metadata =
               LET field == CHOOSE f \in value : TRUE
               IN WithMember(@, <<name, field.name>>, field.val.str)]
SetDynamicMetadata_WritesEmpty(s, i) ==
  LET d == s.dynamic_metadata_templates[i]
      output == render(s, d.template_)
      s1 == [Rendered(Step(s, "dynamic_metadata"), d.template_,
                      "dynamic_metadata")
               EXCEPT !.metadata_outputs = Append(@, output)]
  IN setDynamicMetadata(s1, d.namespace_, keyValueStruct(d.key_, output))
SetDynamicMetadata(s, i) ==
  LET d == s.dynamic_metadata_templates[i]
      output == render(s, d.template_)
      s1 == [Rendered(Step(s, "dynamic_metadata"), d.template_,
                      "dynamic_metadata")
               EXCEPT !.metadata_outputs = Append(@, output)]
  IN IF output # ""
       THEN setDynamicMetadata(s1, d.namespace_,
                               keyValueStruct(d.key_, output))
       ELSE s1
RECURSIVE DynamicMetadata(_, _)
DynamicMetadata(s, i) ==
  IF ~Running(s) \/ i > Len(s.dynamic_metadata_templates) THEN s
  ELSE DynamicMetadata(SetDynamicMetadata(s, i), i + 1)

\* lines 651-662: header sets
SetHeader_KeepsExisting(s, i) ==
  LET h == s.headers_templates[i]
      output == render(s, h.template)
      s1 == Rendered(Step(s, "headers"), h.template, "headers")
  IN [s1 EXCEPT
        !.header_map = IF output # "" THEN addCopy(@, h.key, output) ELSE @,
        !.set_outputs = Append(@, output)]
SetHeader(s, i) ==
  LET h == s.headers_templates[i]
      output == render(s, h.template)
      s1 == Rendered(Step(s, "headers"), h.template, "headers")
      removed == remove(s1.header_map, h.key)
  IN [s1 EXCEPT
        !.header_map = IF output # "" THEN addCopy(removed, h.key, output)
                       ELSE removed,
        !.set_outputs = Append(@, output)]
RECURSIVE HeadersTransform(_, _)
HeadersTransform(s, i) ==
  IF ~Running(s) \/ i > Len(s.headers_templates) THEN s
  ELSE HeadersTransform(SetHeader(s, i), i + 1)

\* lines 664-666: header removes
RemoveHeader(s, i) ==
  [Step(s, "headers_to_remove") EXCEPT
     !.header_map = remove(@, s.headers_to_remove_templates[i])]
RECURSIVE HeadersToRemove(_, _)
HeadersToRemove(s, i) ==
  IF ~Running(s) \/ i > Len(s.headers_to_remove_templates) THEN s
  ELSE HeadersToRemove(RemoveHeader(s, i), i + 1)

\* lines 668-676: header appends
AppendHeader_Replaces(s, i) ==
  LET h == s.headers_to_append_templates[i]
      output == render(s, h.template)
      s1 == Rendered(Step(s, "headers_to_append"), h.template,
                     "headers_to_append")
  IN [s1 EXCEPT
        !.header_map = IF output # ""
                         THEN addCopy(remove(@, h.key), h.key, output)
                         ELSE @,
        !.append_outputs = Append(@, output)]
AppendHeader(s, i) ==
  LET h == s.headers_to_append_templates[i]
      output == render(s, h.template)
      s1 == Rendered(Step(s, "headers_to_append"), h.template,
                     "headers_to_append")
  IN [s1 EXCEPT
        !.header_map = IF output # "" THEN addCopy(@, h.key, output) ELSE @,
        !.append_outputs = Append(@, output)]
RECURSIVE HeadersToAppend(_, _)
HeadersToAppend(s, i) ==
  IF ~Running(s) \/ i > Len(s.headers_to_append_templates) THEN s
  ELSE HeadersToAppend(AppendHeader(s, i), i + 1)

\* lines 678-688: the body buffer is replaced, Content-Length follows
ReplaceBody_KeepsContentLength(s) ==
  IF ~Running(s) THEN s
  ELSE IF s.maybe_body # <<>>
    THEN [Step(s, "replace_body") EXCEPT !.body = s.maybe_body[1]]
    ELSE s
ReplaceBody(s) ==
  IF ~Running(s) THEN s
  ELSE IF s.maybe_body # <<>>
    THEN [Step(s, "replace_body") EXCEPT
            !.header_map = setContentLength(removeContentLength(@),
                                            Len(s.maybe_body[1])),
            !.body = s.maybe_body[1]]
    ELSE s

\* the locals of a transform call on a message
Locals(self, hm, req_headers, data, callbacks) ==
  [header_map |-> hm, body |-> data, dynamic_metadata |-> <<>>,
   request_headers_ |-> req_headers, environ_ |-> self.environ_,
   \* lines 543-548: the cluster's metadata, when there is a cluster
   cluster_metadata_ |->
     IF callbacks.clusterInfo = nullptr THEN nullptr
     ELSE PointerTo(Deref(callbacks.clusterInfo).metadata),
   rng_ |-> self.rng_, pattern_replacements_ |-> <<>>,
   random_outputs |-> <<>>,
   random_calls |-> 0, metadata_outputs |-> <<>>, metadata_calls |-> <<>>,
   string_body |-> NoString, json_body |-> JsonNull, extractions |-> <<>>,
   headers_templates |-> <<>>, headers_to_remove_templates |-> <<>>,
   headers_to_append_templates |-> <<>>, dynamic_metadata_templates |-> <<>>,
   body_template |-> <<>>, maybe_body |-> <<>>,
   exception |-> NoException, n_parse |-> 0, steps |-> <<>>,
   body_reads |-> <<>>, set_outputs |-> <<>>, append_outputs |-> <<>>,
   before_headers |-> <<>>, after_headers |-> <<>>, after_remove |-> <<>>]

\* the header map as the header steps find and leave it
BeforeHeaders(s) == [s EXCEPT !.before_headers = s.header_map]
AfterHeaders(s) == [s EXCEPT !.after_headers = s.header_map]
AfterRemove(s) == [s EXCEPT !.after_remove = s.header_map]

\* InjaTransformer::transform (lines 480-689)
InjaTransformer_transform_ReplacesFirst(self, hm, req_headers, data, callbacks) ==
  LET t == self.transformation_
      merged == self.merged_extractors_to_body_
      parsed == ParseBody(t, Locals(self, hm, req_headers, data, callbacks))
      extracted == Extractions(t, ConstructExtractors(t, parsed))
      compiled == Compile(t, extracted)
      with_body == ReplaceBody(BodyTransform(merged, compiled))
      with_metadata == DynamicMetadata(with_body, 1)
      set == AfterHeaders(HeadersTransform(BeforeHeaders(with_metadata), 1))
      removed == AfterRemove(HeadersToRemove(set, 1))
  IN HeadersToAppend(removed, 1)
InjaTransformer_transform_RemovesFirst(self, hm, req_headers, data, callbacks) ==
  LET t == self.transformation_
      merged == self.merged_extractors_to_body_
      parsed == ParseBody(t, Locals(self, hm, req_headers, data, callbacks))
      extracted == Extractions(t, ConstructExtractors(t, parsed))
      compiled == Compile(t, extracted)
      with_body == BodyTransform(merged, compiled)
      with_metadata == DynamicMetadata(with_body, 1)
      removed == AfterRemove(HeadersToRemove(BeforeHeaders(with_metadata), 1))
      set == AfterHeaders(HeadersTransform(removed, 1))
      appended == HeadersToAppend(set, 1)
  IN ReplaceBody(appended)
InjaTransformer_transform(self, hm, req_headers, data, callbacks) ==
  LET t == self.transformation_
      merged == self.merged_extractors_to_body_
      parsed == ParseBody(t, Locals(self, hm, req_headers, data, callbacks))
      extracted == Extractions(t, ConstructExtractors(t, parsed))
      compiled == Compile(t, extracted)
      with_body == BodyTransform(merged, compiled)
      with_metadata == DynamicMetadata(with_body, 1)
      set == AfterHeaders(HeadersTransform(BeforeHeaders(with_metadata), 1))
      removed == AfterRemove(HeadersToRemove(set, 1))
      appended == HeadersToAppend(removed, 1)
  IN ReplaceBody(appended)

\* InjaTransformer::InjaTransformer (lines 389-422): validate_templates
\* first; the Extraction entries are not looked at
Accepted == "accepted"
Rejected == "rejected"
\* the process environment (char **environ)
ProcessEnvironment == <<"K=v", "=x", "HOME">>
\* lines 395-405: an entry without "=" is stored under its whole text
RECURSIVE ParseEnvironment(_, _)
ParseEnvironment(envp, i) ==
  IF i > Len(envp) THEN <<>>
  ELSE LET current_env == envp[i]
           equals == find(current_env, "=")
           key == IF equals = 0 THEN current_env
                  ELSE SubSeq(current_env, 1, equals - 1)
           value == IF equals = 0 THEN current_env
                    ELSE SubSeq(current_env, equals + 1, Len(current_env))
           later == ParseEnvironment(envp, i + 1)
       IN IF equals = 1 \/ key \in DOMAIN later THEN later
          ELSE WithMember(later, key, value)
InjaTransformer(t) ==
  LET validated == validate_templates(t)
  IN [loaded |-> IF validated.failed THEN Rejected ELSE Accepted,
      n_parse |-> validated.n_parse,
      environ_ |-> IF validated.failed THEN <<>>
                   ELSE ParseEnvironment(ProcessEnvironment, 1),
      merged_extractors_to_body_ |->
        ~validated.failed
          /\ t.body_transformation_case = kMergeExtractorsToBody]

----------------------------------------------------------------------------
(* The Transformations and the messages the model runs.                    *)

MaxMessages == 2  \* messages given to one loaded Transformation
MaxAspects == 2   \* fields of a Transformation that differ from the default

Template(key, text) == [key |-> key, text |-> text]
MetadataValue(metadata_namespace, key, text) ==
  [metadata_namespace |-> metadata_namespace, key |-> key, text |-> text]
NamedExtractor(name, extractor) == [name |-> name, extractor |-> extractor]
BearerToken(subgroup) ==
  Extraction("authorization", FALSE, "Bearer (.*)", subgroup)

\* the values each field takes; the first one is the field's default
Aspects ==
  [headers |->
     <<<<>>,
       <<Template("x-a", "v")>>,
       <<Template("x-a", "")>>,
       <<Template("x-a", "{{body()}}")>>,
       <<Template("x-a", "{{header(\"x-a\")}}")>>,
       <<Template("X-A", "v"), Template("x-a", "w")>>,
       <<Template("content-length", "v")>>,
       <<Template("x-a", "{{")>> >>,
   headers_to_append |->
     <<<<>>,
       <<Template("x-a", "v")>>,
       <<Template("x-a", "v"), Template("X-A", "w")>>,
       <<Template("x-a", ""), Template("x-a", "{{body()}}")>>,
       <<Template("content-length", "v")>>,
       <<Template("x-a", "{{nofn()}}")>> >>,
   headers_to_remove |->
     << <<>>, <<"x-a">>, <<"X-A">> >>,
   dynamic_metadata_values |->
     <<<<>>,
       <<MetadataValue("", "k", "{{body()}}")>>,
       <<MetadataValue("ns", "k", "")>>,
       <<MetadataValue("", "k", "{{header()}}")>> >>,
   extractors |->
     <<<<>>,
       <<NamedExtractor("auth.token", BearerToken(1))>>,
       <<NamedExtractor("auth.token", BearerToken(2))>>,
       <<NamedExtractor("e", Extraction("", TRUE, ".*", 0))>>,
       <<NamedExtractor("auth", BearerToken(0)),
         NamedExtractor("auth.token", BearerToken(1))>> >>,
   body |->
     <<[body_transformation_case |-> BODY_TRANSFORMATION_NOT_SET, text |-> ""],
       [body_transformation_case |-> kPassthrough, text |-> ""],
       [body_transformation_case |-> kMergeExtractorsToBody, text |-> ""],
       [body_transformation_case |-> kBody, text |-> "n"],
       [body_transformation_case |-> kBody, text |-> ""],
       [body_transformation_case |-> kBody, text |-> "{{body()}}"],
       [body_transformation_case |-> kBody, text |-> "{{extraction(\"e\")}}"],
       [body_transformation_case |-> kBody, text |-> "{{"]>>,
   parse_body_behavior |-> <<ParseAsJson, DontParse>>,
   ignore_error_on_parse |-> <<FALSE, TRUE>>,
   advanced_templates |-> <<FALSE, TRUE>>]

\* a choice of a value for at most MaxAspects fields; the other fields
\* keep their default
Choices ==
  UNION {{c \in [F -> 2..8] : \A f \in F : c[f] <= Len(Aspects[f])} :
           F \in {G \in SUBSET DOMAIN Aspects : Cardinality(G) <= MaxAspects}}
Chosen(c, f) == IF f \in DOMAIN c THEN Aspects[f][c[f]] ELSE Aspects[f][1]
TransformationOf(c) ==
  [headers |-> Chosen(c, "headers"),
   headers_to_append |-> Chosen(c, "headers_to_append"),
   headers_to_remove |-> Chosen(c, "headers_to_remove"),
   dynamic_metadata_values |-> Chosen(c, "dynamic_metadata_values"),
   extractors |-> Chosen(c, "extractors"),
   body_transformation_case |-> Chosen(c, "body").body_transformation_case,
   body |-> Chosen(c, "body").text,
   parse_body_behavior |-> Chosen(c, "parse_body_behavior"),
   ignore_error_on_parse |-> Chosen(c, "ignore_error_on_parse"),
   advanced_templates |-> Chosen(c, "advanced_templates")]
Transformations == {TransformationOf(c) : c \in Choices}

\* the host's random generators: the values random() returns, in turn
Counting == [stream |-> <<0, 1, 2, 3>>, next |-> 1]
Repeating == [stream |-> <<0>>, next |-> 1]
Generators == {Counting, Repeating}

\* the messages: a header map and a body
HeaderMaps ==
  {<<>>,
   <<HeaderEntry("x-a", "1"), HeaderEntry("authorization", "Bearer abc"),
     HeaderEntry("x-a", "2"), HeaderEntry(ContentLength, "2")>>}
Bodies == {"", "{}", "{\"auth\":1}", "x{"}
\* a stream without a cluster
NoCluster == [clusterInfo |-> nullptr]
Message(hm, req_headers, data, callbacks) ==
  [header_map |-> hm, request_headers |-> req_headers, body |-> data,
   callbacks |-> callbacks]
\* request messages of streams without a cluster
Messages == {Message(hm, nullptr, data, NoCluster) : hm \in HeaderMaps,
                                                  data \in Bodies}

\* ---- the Transformations and messages that exercise the callbacks
RandomX == "{{replace_with_random(\"aXa\", \"X\")}}"
RandomXX == "{{replace_with_random(\"XbX\", \"X\")}}"
RandomY == "{{replace_with_random(\"c\", \"Y\")}}"
CallbackTexts ==
  {"", "v", RandomX, RandomXX, RandomY, RandomX \o "-" \o RandomXX,
   "{{header(\"x-a\")}}", "{{request_header(\"x-a\")}}",
   "{{extraction(\"e\")}}", "{{extraction(\"u\")}}", "{{env(\"K\")}}",
   "{{env(\"Z\")}}", "{{clusterMetadata(\"k\")}}"}
\* two dynamic metadata values, with and without a namespace, at most one
\* header, and an extractor of the whole body named "e"
CallbackTransformations ==
  {[TransformationOf(<<>>) EXCEPT
      !.dynamic_metadata_values =
         <<MetadataValue("", "k", first), MetadataValue("ns", "j", second)>>,
      !.headers = hs,
      !.extractors = <<NamedExtractor("e", Extraction("", TRUE, ".*", 0))>>,
      !.advanced_templates = advanced] :
     first \in CallbackTexts,
     second \in {"", RandomXX, "{{header(\"x-a\")}}"},
     hs \in {<<>>, <<Template("x-r", RandomXX)>>}, advanced \in BOOLEAN}
\* streams of a cluster with and without the metadata key "k"
Cluster(fields) == [clusterInfo |-> PointerTo([metadata |-> fields])]
\* request messages, and response messages with their request's headers
CallbackMessages ==
  {Message(<<>>, nullptr, "", NoCluster),
   Message(<<>>, nullptr, "{}", NoCluster),
   Message(<<HeaderEntry("x-a", "1")>>, nullptr, "{}", Cluster({})),
   Message(<<>>, PointerTo(<<HeaderEntry("x-a", "2")>>), "{}",
           Cluster({Field("k", StringValue("m"))})),
   Message(<<HeaderEntry("x-a", "1")>>, PointerTo(<<>>), "{}",
           Cluster({Field("k", StructValue({}))}))}

----------------------------------------------------------------------------
(* The specification of the transformer: a Transformation is loaded, and   *)
(* an accepted one transforms up to MaxMessages messages.  The filter of   *)
(* the first part stands still.                                            *)

FilterIdle ==
  /\ functional_ = FALSE
  /\ current_function_ = NoFunction
  /\ error_ = NoError
  /\ error_code_ = CodeOK
  /\ error_messgae_ = ""
  /\ request_body_ = ""
  /\ response_body_ = ""
  /\ header_map_ = Null
  /\ stream_destroyed_ = FALSE
  /\ request_transformation_ = Null
  /\ response_transformation_ = Null
  /\ decoder_buffer_limit_ = 0
  /\ encoder_buffer_limit_ = 0
  /\ route = NoRoute
  /\ accessor_function = NoFunction
  /\ request_headers = HeaderMap(0)
  /\ response_headers = HeaderMap(CodeOK)
  /\ decoded_data = <<>>
  /\ encoded_data = <<>>
  /\ local_replies = <<>>
  /\ decode_phase = "init"
  /\ encode_phase = "init"
  /\ decode_data_calls = 0
  /\ encode_data_calls = 0
  /\ n_transformRequest = 0
  /\ n_transformResponse = 0
  /\ request_overflowed = FALSE
  /\ response_overflowed = FALSE
  /\ request_error_seen = FALSE
  /\ last = NoCall

InitT ==
  /\ FilterIdle
  /\ transformation_ \in Transformations
  /\ merged_extractors_to_body_ = FALSE
  /\ loaded = NotLoaded
  /\ msg_header_map = <<>>
  /\ msg_body = ""
  /\ dynamic_metadata = <<>>
  /\ n_parse = 0
  /\ n_messages = 0
  /\ tr = NoTransform
  /\ rng_ = Counting
  /\ environ_ = <<>>
  /\ SubstringIdle
  /\ NatsIdle

\* config load: the InjaTransformer is constructed for the Transformation
Load ==
  /\ loaded = NotLoaded
  /\ LET it == InjaTransformer(transformation_)
     IN /\ loaded' = it.loaded
        /\ merged_extractors_to_body_' = it.merged_extractors_to_body_
        /\ n_parse' = n_parse + it.n_parse
        /\ environ_' = it.environ_
  /\ UNCHANGED <<transformation_, msg_header_map, msg_body, dynamic_metadata,
                 n_messages, tr, rng_, filter_vars, host_vars, obs_vars,
                 aux_vars>>

\* a message of a new stream goes through transform
This ==
  [transformation_ |-> transformation_,
   merged_extractors_to_body_ |-> merged_extractors_to_body_,
   rng_ |-> rng_, environ_ |-> environ_]
TransformOf(messages) ==
  /\ loaded = Accepted
  /\ n_messages < MaxMessages
  /\ \E m \in messages, self \in {This} :
       \E s \in {InjaTransformer_transform(
                    self, m.header_map, m.request_headers, m.body,
                    m.callbacks)} :
          /\ rng_' = s.rng_
          /\ msg_header_map' = s.header_map
          /\ msg_body' = s.body
          /\ dynamic_metadata' = s.dynamic_metadata
          /\ n_parse' = n_parse + s.n_parse
          /\ tr' = [outcome |-> s.exception, in_header_map |-> m.header_map,
                    in_request_headers |-> m.request_headers,
                    in_body |-> m.body, in_callbacks |-> m.callbacks,
                    self |-> self, n_parse_before |-> n_parse,
                    locals |-> s]
  /\ n_messages' = n_messages + 1
  /\ UNCHANGED <<transformation_, merged_extractors_to_body_, loaded,
                 environ_, filter_vars, host_vars, obs_vars, aux_vars>>
Transform == TransformOf(Messages)

NextT ==
  \/ Load
  \/ Transform

SpecT == InitT /\ [][NextT]_vars

\* ---- the same transformer over the Transformations and messages that
\* exercise the callbacks, with either random generator
InitR ==
  /\ FilterIdle
  /\ transformation_ \in CallbackTransformations
  /\ merged_extractors_to_body_ = FALSE
  /\ loaded = NotLoaded
  /\ msg_header_map = <<>>
  /\ msg_body = ""
  /\ dynamic_metadata = <<>>
  /\ n_parse = 0
  /\ n_messages = 0
  /\ tr = NoTransform
  /\ rng_ \in Generators
  /\ environ_ = <<>>
  /\ SubstringIdle
  /\ NatsIdle

TransformCallbacks == TransformOf(CallbackMessages)

NextR ==
  \/ Load
  \/ TransformCallbacks

SpecR == InitR /\ [][NextR]_vars

----------------------------------------------------------------------------
(* substring as a function of its arguments: a call is drawn and made.     *)

\* the strings and the int64_t values the calls are made with: around the
\* string's ends, around the range of int and at the ends of int64_t
SubstringInputs == {"", "a", "abc"}
Int64Values ==
  {-1, 0, 1, 2, 3, 4, 2 ^ (IntBits - 1) - 1, 2 ^ (IntBits - 1),
   2 ^ IntBits, 2 ^ IntBits + 1, 1 - 2 ^ IntBits, -(2 ^ IntBits),
   Int64Max, Int64Min}
NonIntegers == {JsonString("1"), JsonFloat("1.5")}
Numbers == {JsonInteger(n) : n \in Int64Values} \cup NonIntegers
SubstringArguments ==
  {<<JsonString(input), start>> :
     input \in SubstringInputs, start \in Numbers}
    \cup {<<JsonString(input), start, len>> :
            input \in SubstringInputs, start \in Numbers, len \in Numbers}

InitS ==
  /\ FilterIdle
  /\ InjaIdle
  /\ NatsIdle
  /\ sub_args \in SubstringArguments
  /\ sub_result = <<>>

Substring ==
  /\ sub_result = <<>>
  /\ \E result \in substring_callback(sub_args) : sub_result' = <<result>>
  /\ UNCHANGED <<sub_args, request_per_inbox, nats_last, filter_vars,
                 host_vars, obs_vars, inja_vars>>

NextS == Substring

SpecS == InitS /\ [][NextS]_vars

----------------------------------------------------------------------------
(* Cases the properties of the transformer speak about.                    *)

\* the last transform ran to its end
Completed == tr.outcome = NoException
\* it produced a new body
BodyReplaced == tr.locals.maybe_body # <<>>
\* the lower-cased keys of a list of header templates
LowerKeys(entries) ==
  {LowerCaseString(entries[i].key) : i \in DOMAIN entries}
\* entry i is the last one of the list under its lower-cased key
LastOfName(entries, i) ==
  \A j \in DOMAIN entries :
    j > i => LowerCaseString(entries[j].key) # LowerCaseString(entries[i].key)
\* the values a rendered text leaves: one, or none for an empty text
OneValue(output) == IF output = "" THEN <<>> ELSE <<output>>
\* the names headers_to_remove lists, lower-cased
RemovedNames ==
  {LowerCaseString(transformation_.headers_to_remove[i]) :
     i \in DOMAIN transformation_.headers_to_remove}
\* the names under which headers_to_append added a value
AppendedNames ==
  {LowerCaseString(transformation_.headers_to_append[i].key) :
     i \in {j \in DOMAIN transformation_.headers_to_append :
              tr.locals.append_outputs[j] # ""}}

\* the values the headers_to_append entries of a name added, in order
AppendedValues(name) ==
  LET added == [i \in DOMAIN transformation_.headers_to_append |->
                  [key |-> LowerCaseString(
                             transformation_.headers_to_append[i].key),
                   output |-> tr.locals.append_outputs[i]]]
      kept == SelectSeq(added, LAMBDA a : a.key = name /\ a.output # "")
  IN [i \in DOMAIN kept |-> kept[i].output]

----------------------------------------------------------------------------
(* Properties of the transformer, stated for SpecT.                        *)

(* C11, as stated: after a completed transform every name configured in    *)
(* headers has exactly one value, the text rendered for it, or none when   *)
(* that text is empty, whatever else the Transformation configures.        *)
C11_Original ==
  Completed =>
    \A i \in DOMAIN transformation_.headers :
      ValuesOf(msg_header_map,
               LowerCaseString(transformation_.headers[i].key))
        = OneValue(tr.locals.set_outputs[i])

(* C11, amended: after a completed transform every name configured in      *)
(* headers has exactly one value, the text rendered for the last headers   *)
(* entry of that lower-cased name, or none when that text is empty,        *)
(* whatever values the message carried, provided the name is not listed in *)
(* headers_to_remove, no headers_to_append entry added a value under it,   *)
(* and it is not content-length while the body is replaced.                *)
C11_HeaderSets ==
  Completed =>
    \A i \in DOMAIN transformation_.headers :
      LET name == LowerCaseString(transformation_.headers[i].key)
      IN (/\ LastOfName(transformation_.headers, i)
          /\ name \notin RemovedNames
          /\ name \notin AppendedNames
          /\ ~(name = ContentLength /\ BodyReplaced))
         => ValuesOf(msg_header_map, name)
              = OneValue(tr.locals.set_outputs[i])

C11_Witness ==
  /\ Completed
  /\ transformation_.headers = <<Template("x-a", "v")>>
  /\ ValuesOf(tr.in_header_map, "x-a") = <<"1", "2">>
  /\ ValuesOf(msg_header_map, "x-a") = <<"v">>

(* C12, as stated: after a completed transform, under every name of a     *)
(* headers_to_append entry the values the message carried are all still    *)
(* there, followed by one more value per entry whose render is non-empty.  *)
C12_Original ==
  Completed =>
    \A name \in LowerKeys(transformation_.headers_to_append) :
      ValuesOf(msg_header_map, name)
        = ValuesOf(tr.in_header_map, name) \o AppendedValues(name)

(* C12, amended: the same, provided the name is not also configured in     *)
(* headers or listed in headers_to_remove, and is not a header the map     *)
(* keeps inline (content-length), where addCopy joins the values into one  *)
(* and the body replacement overwrites it.  Duplicate names among the      *)
(* entries, also under different case, each add their own value.           *)
C12_HeaderAppends ==
  Completed =>
    \A name \in LowerKeys(transformation_.headers_to_append) :
      (/\ name \notin LowerKeys(transformation_.headers)
       /\ name \notin RemovedNames
       /\ name \notin InlineHeaders)
      => ValuesOf(msg_header_map, name)
           = ValuesOf(tr.in_header_map, name) \o AppendedValues(name)

C12_Witness ==
  /\ Completed
  /\ Len(transformation_.headers_to_append) = 2
  /\ ValuesOf(tr.in_header_map, "x-a") = <<"1", "2">>
  /\ ValuesOf(msg_header_map, "x-a") = <<"1", "2", "v", "w">>

(* C13, as stated: after a completed transform that produced a new body    *)
(* the buffer holds exactly that body and Content-Length is its length;    *)
(* otherwise the buffer and Content-Length are as before the transform.    *)
C13_Original ==
  Completed =>
    IF BodyReplaced
      THEN /\ msg_body = tr.locals.maybe_body[1]
           /\ ValuesOf(msg_header_map, ContentLength)
                = <<ToDecimal(Len(msg_body))>>
      ELSE /\ msg_body = tr.in_body
           /\ ValuesOf(msg_header_map, ContentLength)
                = ValuesOf(tr.in_header_map, ContentLength)

(* C13, amended: without a new body the buffer is as before, and so is     *)
(* Content-Length unless the Transformation itself names content-length in *)
(* headers, headers_to_remove or headers_to_append.                        *)
C13_BodyAndLength ==
  Completed =>
    IF BodyReplaced
      THEN /\ msg_body = tr.locals.maybe_body[1]
           /\ ValuesOf(msg_header_map, ContentLength)
                = <<ToDecimal(Len(msg_body))>>
      ELSE /\ msg_body = tr.in_body
           /\ ContentLength \notin
                LowerKeys(transformation_.headers) \cup RemovedNames
                  \cup LowerKeys(transformation_.headers_to_append)
              => ValuesOf(msg_header_map, ContentLength)
                   = ValuesOf(tr.in_header_map, ContentLength)

C13_Witness ==
  /\ Completed
  /\ transformation_.body_transformation_case = kBody
  /\ tr.in_body = "{}"
  /\ ValuesOf(tr.in_header_map, ContentLength) = <<"2">>
  /\ msg_body = "n"
  /\ ValuesOf(msg_header_map, ContentLength) = <<"1">>

(* C14: within one transform the body buffer is replaced as the very last  *)
(* step, after every dynamic-metadata, header-set, header-remove and       *)
(* header-append step; every body() a template evaluated returned the      *)
(* body the message came with, and every body extraction was taken from    *)
(* it, also when a body template is configured.                            *)
C14_BodyReplacedLast ==
  tr # NoTransform =>
    /\ \A i \in DOMAIN tr.locals.steps :
         tr.locals.steps[i] = "replace_body" => i = Len(tr.locals.steps)
    /\ \A i \in DOMAIN tr.locals.body_reads :
         tr.locals.body_reads[i].text = tr.in_body
    /\ \A i \in DOMAIN transformation_.extractors :
         LET e == transformation_.extractors[i]
         IN (e.extractor.has_body /\ e.name \in DOMAIN tr.locals.extractions)
            => tr.locals.extractions[e.name]
                 = extractValue(e.extractor, tr.in_body)

C14_Witness ==
  /\ Completed
  /\ transformation_.body_transformation_case = kBody
  /\ tr.in_body = ""
  /\ msg_body = "n"
  /\ \E i \in DOMAIN tr.locals.body_reads :
       /\ tr.locals.body_reads[i].step = "headers"
       /\ tr.locals.body_reads[i].text = ""
  /\ tr.locals.steps[Len(tr.locals.steps)] = "replace_body"

(* C15: header sets are applied before header removes: no remove step is   *)
(* followed by a set step, and a name listed both in headers and in        *)
(* headers_to_remove is absent from the header map after the remove step,  *)
(* whatever its template rendered and whatever the message carried; it     *)
(* stays absent to the end unless headers_to_append adds it again or it is *)
(* content-length and the body is replaced.                                *)
C15_SetThenRemove ==
  Completed =>
    /\ \A i, j \in DOMAIN tr.locals.steps :
         (tr.locals.steps[i] = "headers_to_remove"
            /\ tr.locals.steps[j] = "headers") => j < i
    /\ \A name \in LowerKeys(transformation_.headers) \cap RemovedNames :
         /\ ValuesOf(tr.locals.after_remove, name) = <<>>
         /\ (name \notin AppendedNames
               /\ ~(name = ContentLength /\ BodyReplaced))
            => ValuesOf(msg_header_map, name) = <<>>

C15_Witness ==
  /\ Completed
  /\ transformation_.headers = <<Template("x-a", "v")>>
  /\ transformation_.headers_to_remove = <<"X-A">>
  /\ ValuesOf(tr.in_header_map, "x-a") = <<"1", "2">>
  /\ ValuesOf(tr.locals.after_headers, "x-a") = <<"v">>
  /\ ValuesOf(tr.locals.after_remove, "x-a") = <<>>
  /\ ValuesOf(msg_header_map, "x-a") = <<>>

\* the step was taken in the last transform
Took(step) == \E i \in DOMAIN tr.locals.steps : tr.locals.steps[i] = step
\* basic mode writes the extractions into the JSON context
ContextTouched ==
  ~transformation_.advanced_templates /\ transformation_.extractors # <<>>

(* C16: the body is parsed as JSON exactly when parse_body_behavior is     *)
(* ParseAsJson and the body is non-empty; a failed parse with              *)
(* ignore_error_on_parse leaves the context null and the transform goes    *)
(* on; a failed parse without it ends the transform with the JSON parse    *)
(* error, the header map, the dynamic metadata and the body untouched.     *)
C16_ParseBody ==
  tr # NoTransform =>
    /\ Took("parse_body")
         <=> (transformation_.parse_body_behavior = ParseAsJson
                /\ tr.in_body # "")
    /\ (Took("parse_body") /\ ~ParseFails(tr.in_body) /\ ~ContextTouched)
         => tr.locals.json_body = json_parse(tr.in_body)
    /\ (Took("parse_body") /\ ParseFails(tr.in_body)
          /\ transformation_.ignore_error_on_parse)
         => /\ tr.outcome # JsonParseException
            /\ Took("extractors")
            /\ ~ContextTouched => tr.locals.json_body = JsonNull
    /\ (Took("parse_body") /\ ParseFails(tr.in_body)
          /\ ~transformation_.ignore_error_on_parse)
         => /\ tr.outcome = JsonParseException
            /\ msg_header_map = tr.in_header_map
            /\ msg_body = tr.in_body
            /\ dynamic_metadata = <<>>
    /\ ~Took("parse_body") => tr.outcome # JsonParseException

C16_Witness ==
  /\ tr # NoTransform
  /\ tr.outcome = JsonParseException
  /\ tr.in_body = "x{"
  /\ transformation_.headers = <<Template("x-a", "v")>>
  /\ ValuesOf(msg_header_map, "x-a") = <<"1", "2">>

\* the value a JSON document holds at a path of keys, JsonNull when the
\* path leaves the document
RECURSIVE ValueAt(_, _)
ValueAt(j, fields) ==
  IF fields = <<>> THEN j
  ELSE IF j.type = "object" /\ fields[1] \in DOMAIN j.obj
    THEN ValueAt(j.obj[fields[1]], Tail(fields))
    ELSE JsonNull

(* C17: in basic mode, for every named extractor and every body that       *)
(* parsed, the extraction step ends with the extracted string at the path  *)
(* given by the extractor's name split on ".", and with                    *)
(* merge_extractors_to_body the outgoing body is the dump of that JSON.    *)
C17_BasicModeExtraction ==
  (/\ tr # NoTransform
   /\ ~transformation_.advanced_templates
   /\ Took("extract"))
  => /\ tr.outcome = NoException
     /\ \A i \in DOMAIN transformation_.extractors :
          LET e == transformation_.extractors[i]
          IN ValueAt(tr.locals.json_body, SplitName(e.name))
               = JsonString(extract(e.extractor,
                                    Locals(tr.self, tr.in_header_map,
                                           tr.in_request_headers, tr.in_body,
                                           tr.in_callbacks)))
     /\ merged_extractors_to_body_ => msg_body = dump(tr.locals.json_body)

\* the Transformation has an extractor whose constructor throws
BadExtractor ==
  \E i \in DOMAIN transformation_.extractors :
    Extractor_throws(transformation_.extractors[i].extractor)

(* C18: an extractor whose subgroup is greater than its regex's group      *)
(* count is rejected at config load: such a Transformation is never        *)
(* accepted, and no transform fails because of it.                         *)
C18_BadExtractorRejectedAtLoad ==
  BadExtractor =>
    /\ loaded # Accepted
    /\ tr # NoTransform => tr.outcome # EnvoyException

(* C19: every template is parsed exactly once, at config load: once the    *)
(* Transformation is accepted, no step parses a template.                  *)
C19_ParsedOnceAtLoad ==
  [][loaded = Accepted => n_parse' = n_parse]_vars

\* the template texts of a Transformation, field by field
TemplateTexts(t) ==
  {t.headers[i].text : i \in DOMAIN t.headers}
    \cup {t.headers_to_append[i].text : i \in DOMAIN t.headers_to_append}
    \cup {t.dynamic_metadata_values[i].text :
            i \in DOMAIN t.dynamic_metadata_values}
    \cup (IF t.body_transformation_case = kBody THEN {t.body} ELSE {})
\* the instance transform builds for it
InstanceOf(t) ==
  IF t.advanced_templates
    THEN set_element_notation(TransformerInstance, Pointer)
    ELSE TransformerInstance
\* the templates the last transform compiled, field by field
Compiled ==
  <<[i \in DOMAIN tr.locals.headers_templates |->
       tr.locals.headers_templates[i].template],
    [i \in DOMAIN tr.locals.headers_to_append_templates |->
       tr.locals.headers_to_append_templates[i].template],
    [i \in DOMAIN tr.locals.dynamic_metadata_templates |->
       tr.locals.dynamic_metadata_templates[i].template_]>>
  \o IF tr.locals.body_template # <<>> THEN <<tr.locals.body_template>>
     ELSE <<>>

(* C20: config-time validation is sound for the runtime: a Transformation  *)
(* is rejected at load exactly when one of its header, header-append,      *)
(* dynamic-metadata or body templates does not parse against the           *)
(* callbacks and element notation transform uses; an accepted one never    *)
(* raises a template parse error in transform's compile step, and the      *)
(* templates transform compiles are the ones validate_templates parsed.    *)
C20_ValidationSound ==
  /\ loaded # NotLoaded =>
       (loaded = Rejected
          <=> \E text \in TemplateTexts(transformation_) :
                parse(InstanceOf(transformation_), text) = ParseError)
  /\ (tr # NoTransform /\ Took("compile")) =>
       /\ tr.outcome # EnvoyException
       /\ Compiled = validate_templates(transformation_).templates

C20_Witness ==
  /\ Completed
  /\ Took("compile")
  /\ transformation_.advanced_templates
  /\ transformation_.headers = <<Template("x-a", "{{body()}}")>>
  /\ Compiled = <<<<CallNode(FunctionCall("body", <<>>), Pointer)>>,
                  <<>>, <<>> >>

----------------------------------------------------------------------------
(* Properties of the callbacks, over SpecR.                                *)

\* the replace_with_random calls of the last transform, in order, and
\* their patterns
RandomOutputs == tr.locals.random_outputs
PatternsSeen == {RandomOutputs[i].pattern : i \in DOMAIN RandomOutputs}
\* the call that saw its pattern first
FirstSeen(i) ==
  \A j \in 1..(i - 1) : RandomOutputs[j].pattern # RandomOutputs[i].pattern
\* the n-th value the generator returns from where rng stands
Nth(rng, n) == rng.stream[((rng.next + n - 2) % Len(rng.stream)) + 1]
\* the templates the last transform compiled
CompiledTemplates ==
  {tr.locals.headers_templates[i].template :
     i \in DOMAIN tr.locals.headers_templates}
    \cup {tr.locals.dynamic_metadata_templates[i].template_ :
            i \in DOMAIN tr.locals.dynamic_metadata_templates}

(* C21: within one transform call, every replace_with_random call with     *)
(* the same pattern substitutes the same replacement, in whichever         *)
(* template it stands; the generator is asked twice (high and low word)    *)
(* for each pattern seen and never again; the memo holds this message's    *)
(* patterns only, each with the Base64 text of the words the generator     *)
(* returned during this call; and rendering a template again against the   *)
(* instance the first render left gives the same output.                   *)
C21_StableRandom ==
  tr # NoTransform =>
    LET memo == tr.locals.pattern_replacements_
    IN /\ DOMAIN memo = PatternsSeen
       /\ \A i \in DOMAIN RandomOutputs :
            RandomOutputs[i].output
              = StrReplaceAll(RandomOutputs[i].source,
                              RandomOutputs[i].pattern,
                              memo[RandomOutputs[i].pattern])
       /\ tr.locals.random_calls = 2 * Cardinality(PatternsSeen)
       /\ \A i \in DOMAIN RandomOutputs :
            FirstSeen(i) =>
              LET k == Cardinality({j \in 1..i : FirstSeen(j)})
              IN memo[RandomOutputs[i].pattern]
                   = Base64_encode(Nth(tr.self.rng_, 2 * k),
                                   Nth(tr.self.rng_, 2 * k - 1))
       /\ \A template \in CompiledTemplates :
            LET fresh == [tr.locals EXCEPT !.pattern_replacements_ = <<>>]
            IN render(Rendered(fresh, template, "again"), template)
                 = render(fresh, template)

\* the second message of a Transformation whose metadata and header
\* templates replace the same pattern: three calls, one replacement, drawn
\* from where the first message left the generator
C21_Witness ==
  /\ Completed
  /\ n_messages = 2
  /\ tr.self.rng_ = [Counting EXCEPT !.next = 3]
  /\ Len(RandomOutputs) = 3
  /\ PatternsSeen = {"X"}
  /\ {RandomOutputs[i].step : i \in DOMAIN RandomOutputs}
       = {"dynamic_metadata", "headers"}
  /\ tr.locals.pattern_replacements_["X"] = "AwAAAAAAAAACAAAAAAAAAA"
  /\ RandomOutputs[3].output
       = "AwAAAAAAAAACAAAAAAAAAA" \o "b" \o "AwAAAAAAAAACAAAAAAAAAA"

----------------------------------------------------------------------------
(* Properties of substring, over SpecS.                                    *)

\* the call's string, and its start and length as the template gave them
SubInput == sub_args[1].str
SubIntegers == \A i \in 2..Len(sub_args) : sub_args[i].type = "integer"
SubStart == sub_args[2].int
SubLen == sub_args[3].int
Suffix(input, start) == SubSeq(input, start + 1, Len(input))

(* C22: substring returns "" when start or len is not an integer, and ""   *)
(* when start < 0 or start is at least the length of the string;           *)
(* otherwise the suffix from start when it has two arguments, or when      *)
(* len <= 0 or start + len is greater than the length; otherwise the len   *)
(* bytes from start on.                                                    *)
C22_Substring ==
  sub_result # <<>> =>
    sub_result[1] =
      JsonString(
        IF ~SubIntegers THEN ""
        ELSE IF SubStart < 0 \/ SubStart >= Len(SubInput) THEN ""
        ELSE IF Len(sub_args) = 2 THEN Suffix(SubInput, SubStart)
        ELSE IF SubLen <= 0 \/ SubStart + SubLen > Len(SubInput)
          THEN Suffix(SubInput, SubStart)
        ELSE SubSeq(SubInput, SubStart + 1, SubStart + SubLen))

----------------------------------------------------------------------------
(* Dynamic metadata and missing values, over SpecR.                        *)

\* the namespace an entry is written to
NamespaceOf(value) ==
  IF value.metadata_namespace = "" THEN "io.solo.transformation"
  ELSE value.metadata_namespace
\* the setDynamicMetadata calls the entries from the i-th on account for,
\* given what each entry rendered
RECURSIVE CallsFor(_, _, _)
CallsFor(values, outputs, i) ==
  IF i > Len(values) THEN <<>>
  ELSE (IF outputs[i] # ""
          THEN <<[name |-> NamespaceOf(values[i]),
                  value |-> {Field(values[i].key, StringValue(outputs[i]))}]>>
          ELSE <<>>)
         \o CallsFor(values, outputs, i + 1)

(* C23: a transform that completes has rendered every                      *)
(* dynamic_metadata_values entry, and its setDynamicMetadata calls are, in *)
(* order, one call for each entry whose output is not empty, with the      *)
(* entry's namespace (the filter's own when the entry names none) and the  *)
(* struct {key: output}; an entry that renders empty makes no call.        *)
C23_DynamicMetadata ==
  Completed =>
    /\ Len(tr.locals.metadata_outputs)
         = Len(transformation_.dynamic_metadata_values)
    /\ tr.locals.metadata_calls
         = CallsFor(transformation_.dynamic_metadata_values,
                    tr.locals.metadata_outputs, 1)
    /\ dynamic_metadata
         = [c \in {<<call.name, (CHOOSE f \in call.value : TRUE).name>> :
                     call \in {tr.locals.metadata_calls[i] :
                                 i \in DOMAIN tr.locals.metadata_calls}} |->
              dynamic_metadata[c]]

\* the first entry renders a header the message lacks and the second one
\* the header the message has: one call, to the second entry's namespace
C23_Witness ==
  /\ Completed
  /\ transformation_.dynamic_metadata_values
       = <<MetadataValue("", "k", "{{request_header(\"x-a\")}}"),
           MetadataValue("ns", "j", "{{header(\"x-a\")}}")>>
  /\ tr.in_header_map = <<HeaderEntry("x-a", "1")>>
  /\ tr.locals.metadata_outputs = <<"", "1">>
  /\ tr.locals.metadata_calls
       = <<[name |-> "ns", value |-> {Field("j", StringValue("1"))}]>>

\* both entries render text: the first goes to the filter's namespace
C23_WitnessDefaultNamespace ==
  /\ Completed
  /\ tr.locals.metadata_outputs = <<"v", "1">>
  /\ tr.locals.metadata_calls
       = <<[name |-> "io.solo.transformation",
            value |-> {Field("k", StringValue("v"))}],
           [name |-> "ns", value |-> {Field("j", StringValue("1"))}]>>

\* the message of the last transform has no header of that name
NoHeader(entries, name) == \A i \in DOMAIN entries : entries[i].key # name
\* the value a call asks for is missing for the last transform
Missing(call) ==
  CASE call.fn = "header" -> NoHeader(tr.in_header_map, call.args[1])
    [] call.fn = "request_header" ->
         \/ tr.in_request_headers = nullptr
         \/ NoHeader(Deref(tr.in_request_headers), call.args[1])
    [] call.fn = "extraction" ->
         \A i \in DOMAIN transformation_.extractors :
           transformation_.extractors[i].name # call.args[1]
    [] call.fn = "env" ->
         \A i \in DOMAIN ProcessEnvironment :
           ~StartsWith(ProcessEnvironment[i], call.args[1] \o "=")
    [] call.fn = "clusterMetadata" -> tr.in_callbacks.clusterInfo = nullptr
    [] OTHER -> FALSE

(* C24: a dynamic metadata template that asks for a value the message      *)
(* lacks -- header of an absent header, request_header without request     *)
(* headers or of an absent header, extraction of a name no extractor has,  *)
(* env of a key the environment lacks, clusterMetadata on a stream without *)
(* cluster metadata -- renders the empty string, and the transform runs    *)
(* to its end without an exception.                                        *)
C24_MissingValues ==
  tr # NoTransform =>
    \A i \in DOMAIN tr.locals.dynamic_metadata_templates :
      LET template == tr.locals.dynamic_metadata_templates[i].template_
      IN (template.kind = "call" /\ Missing(template)) =>
           /\ tr.outcome = NoException
           /\ Len(tr.locals.metadata_outputs)
                = Len(tr.locals.dynamic_metadata_templates)
           /\ tr.locals.metadata_outputs[i] = ""

\* one witness per callback: the value is missing and the transform is done
C24_MissingIn(text, call) ==
  /\ Completed
  /\ transformation_.dynamic_metadata_values[1].text = text
  /\ Missing(call)
  /\ tr.locals.metadata_outputs[1] = ""
C24_Witness ==
  /\ C24_MissingIn("{{env(\"Z\")}}", FunctionCall("env", <<"Z">>))
  /\ tr.in_header_map = <<>>
  /\ transformation_.dynamic_metadata_values[2].text = "{{header(\"x-a\")}}"
  /\ tr.locals.metadata_outputs = <<"", "">>
  /\ tr.locals.metadata_calls = <<>>
C24_WitnessRequestHeaderNull ==
  /\ C24_MissingIn("{{request_header(\"x-a\")}}",
                   FunctionCall("request_header", <<"x-a">>))
  /\ tr.in_request_headers = nullptr
C24_WitnessRequestHeaderAbsent ==
  /\ C24_MissingIn("{{request_header(\"x-a\")}}",
                   FunctionCall("request_header", <<"x-a">>))
  /\ tr.in_request_headers = PointerTo(<<>>)
C24_WitnessExtraction ==
  /\ C24_MissingIn("{{extraction(\"u\")}}",
                   FunctionCall("extraction", <<"u">>))
  /\ transformation_.advanced_templates
C24_WitnessClusterMetadata ==
  C24_MissingIn("{{clusterMetadata(\"k\")}}",
                FunctionCall("clusterMetadata", <<"k">>))

----------------------------------------------------------------------------
(* Further properties of the filter, over Spec.                            *)

\* the last callback found an error already recorded on the stream
ErrorBefore(dir) ==
  /\ last.dir = dir
  /\ error_ # NoError
  /\ ~last.raised

(* C25: whenever an error is recorded on the stream the response           *)
(* direction is not active, and an encode callback that finds an error     *)
(* already recorded returns Continue without calling transformResponse or  *)
(* responseError (no transform, no response data added).                   *)
C25_ErrorMeansResponseInactive ==
  /\ is_error(Self) => ~responseActive(Self)
  /\ ErrorBefore("encode") =>
       /\ last.ret = Continue
       /\ ~last.transformed
       /\ last.added = <<>>

(* C26: a buffer limit of 0 switches the cap of its direction off: with    *)
(* decoder_buffer_limit_ = 0 no decodeData call takes the overflow branch, *)
(* with encoder_buffer_limit_ = 0 no encodeData call does, and with both 0 *)
(* PayloadTooLarge is never recorded, whatever the accumulator holds.      *)
C26_ZeroLimitDisablesCap ==
  /\ decoder_buffer_limit_ = 0 => ~request_overflowed
  /\ encoder_buffer_limit_ = 0 => ~response_overflowed
  /\ (decoder_buffer_limit_ = 0 /\ last.dir = "decode") => ~last.overflow
  /\ (encoder_buffer_limit_ = 0 /\ last.dir = "encode") => ~last.overflow
  /\ (decoder_buffer_limit_ = 0 /\ encoder_buffer_limit_ = 0)
       => error_ # PayloadTooLarge

\* with the limit at 0 the accumulator has grown past what the other
\* limit allows, and the chunks were taken without an error
C26_Witness ==
  /\ decoder_buffer_limit_ = 0
  /\ last.cb = "decodeData"
  /\ Len(request_body_) > CapLimit
  /\ decode_data_calls >= 2
  /\ error_ = NoError

(* C27: on one stream sendLocalReply is called at most once, and a decode  *)
(* callback that records an error is the first one to do so: the reply it  *)
(* sends is the stream's only one.                                         *)
C27_OneLocalReply ==
  /\ Len(local_replies) <= 1
  /\ (last.dir = "decode" /\ last.raised) => Len(local_replies) = 1

\* the last callback transformed its direction's body without an error
Transformed(dir) ==
  /\ last.dir = dir
  /\ last.transformed
  /\ ~last.raised

\* what the last callback handed to the host as the direction's body:
\* responseError() adds the error text after it when an error is recorded
BodyHanded ==
  IF last.dir = "encode" /\ error_ # NoError /\ last.added # <<>>
    THEN SubSeq(last.added, 1, Len(last.added) - 1)
    ELSE last.added

(* C28: a callback whose transformation succeeds leaves the direction's    *)
(* accumulator empty and either hands one non-empty body to the host       *)
(* (addDecodedData / addEncodedData) or, the body being empty, adds no     *)
(* data at all and leaves the message without Content-Type; each direction *)
(* is transformed at most once, so that no later callback forwards its     *)
(* accumulator again.                                                      *)
C28_BodyHandedOnce ==
  /\ Transformed("decode") =>
       /\ request_body_ = ""
       /\ \/ /\ Len(BodyHanded) = 1
             /\ BodyHanded[1] # ""
             /\ decoded_data = BodyHanded
          \/ /\ last.added = <<>>
             /\ ~request_headers.content_type
  /\ Transformed("encode") =>
       /\ response_body_ = ""
       /\ \/ /\ Len(BodyHanded) = 1
             /\ BodyHanded[1] # ""
          \/ /\ last.added = <<>>
             /\ ~response_headers.content_type
  /\ n_transformRequest <= 1
  /\ n_transformResponse <= 1
  /\ Len(decoded_data) <= n_transformRequest

-----------------------------------------------------------------------------
(* PubRequestHandler (source/common/nats/streaming/pub_request_handler.cc). *)
(* request_per_inbox is the std::map<std::string, PubRequest> the handlers  *)
(* are given; a PubRequest is known by the PublishCallbacks it refers to.   *)
(* A handler's state h is the map and the callbacks invoked so far.         *)

\* absl::optional<std::string>
nullopt == <<>>
Optional(value) == <<value>>
has_value(optional) == optional # nullopt

NoRequests == <<>>
PubRequest(callbacks) == [callbacks |-> callbacks]

\* std::map::find(inbox) != end()
Found(map, inbox) == inbox \in DOMAIN map

\* std::map::erase(position)
erase(map, inbox) ==
  IF DOMAIN map \ {inbox} = {} THEN NoRequests
  ELSE [key \in DOMAIN map \ {inbox} |-> map[key]]

\* one invocation of a callback
InboxCall(method, message) ==
  [on |-> "inbox_callbacks", method |-> method, message |-> message]
PublishCall(callbacks, method) ==
  [on |-> "publish_callbacks", callbacks |-> callbacks, method |-> method]
RequestCall(inbox, method) ==
  [on |-> "request", inbox |-> inbox, method |-> method]

\* serialized payloads and what MessageUtility::parsePubAckMessage makes
\* of them: a pb::PubAck or nothing
PubAck(guid, error_text) == [guid |-> guid, error |-> error_text]
PubAcks ==
  [ack1 |-> Optional(PubAck("g1", "")),
   ack2 |-> Optional(PubAck("g2", "")),
   ackE |-> Optional(PubAck("g1", "boom")),
   junk |-> nullopt]
parsePubAckMessage(payload) ==
  IF payload \in DOMAIN PubAcks THEN PubAcks[payload] ELSE nullopt

\* onMessage() that parses the payload before it tests for an empty one
onMessage_ParsesEmpty(calls, reply_to, payload, publish_callbacks) ==
  IF has_value(reply_to)
    THEN Append(calls, InboxCall("onFailure",
                         "incoming PubAck with non-empty reply subject"))
  ELSE
    LET maybe_pub_ack == IF payload = "" THEN Optional(PubAck("", ""))
                         ELSE parsePubAckMessage(payload) IN
    IF has_value(maybe_pub_ack) /\ maybe_pub_ack[1].error = ""
      THEN Append(calls, PublishCall(publish_callbacks, "onResponse"))
      ELSE Append(calls, PublishCall(publish_callbacks, "onFailure"))

\* PubRequestHandler::onMessage(reply_to, payload, inbox_callbacks,
\* publish_callbacks)
onMessage(calls, reply_to, payload, publish_callbacks) ==
  IF has_value(reply_to)
    THEN Append(calls, InboxCall("onFailure",
                         "incoming PubAck with non-empty reply subject"))
  ELSE IF payload = ""
    THEN Append(calls, InboxCall("onFailure",
                         "incoming PubAck without payload"))
  ELSE
    LET maybe_pub_ack == parsePubAckMessage(payload) IN
    IF has_value(maybe_pub_ack) /\ maybe_pub_ack[1].error = ""
      THEN Append(calls, PublishCall(publish_callbacks, "onResponse"))
      ELSE Append(calls, PublishCall(publish_callbacks, "onFailure"))

\* eraseRequest() that clears the whole map
eraseRequest_ClearsMap(h, position) ==
  [request_per_inbox |-> NoRequests,
   calls |-> Append(h.calls, RequestCall(position, "onDestroy"))]

\* PubRequestHandler::eraseRequest(request_per_inbox, position)
eraseRequest(h, position) ==
  [request_per_inbox |-> erase(h.request_per_inbox, position),
   calls |-> Append(h.calls, RequestCall(position, "onDestroy"))]

\* PubRequestHandler::onMessage(inbox, reply_to, payload, inbox_callbacks,
\* request_per_inbox)
onMessageInbox(h, inbox, reply_to, payload) ==
  IF ~Found(h.request_per_inbox, inbox) THEN h
  ELSE
    LET publish_callbacks == h.request_per_inbox[inbox].callbacks
        h1 == [h EXCEPT !.calls = onMessage(@, reply_to, payload,
                                            publish_callbacks)]
    IN eraseRequest(h1, inbox)

\* PubRequestHandler::onTimeout(inbox, request_per_inbox)
onTimeout(h, inbox) ==
  IF ~Found(h.request_per_inbox, inbox) THEN h
  ELSE
    LET request == h.request_per_inbox[inbox]
        h1 == [h EXCEPT !.calls = Append(@, PublishCall(request.callbacks,
                                                        "onTimeout"))]
    IN eraseRequest(h1, inbox)

\* PubRequestHandler::onCancel(inbox, request_per_inbox)
onCancel(h, inbox) ==
  IF ~Found(h.request_per_inbox, inbox) THEN h
  ELSE eraseRequest(h, inbox)

\* ---- HeartbeatHandler (source/common/nats/streaming/heartbeat_handler.cc)
HeartbeatCall(method, message) ==
  [on |-> "callbacks", method |-> method, message |-> message]

\* MessageBuilder::createPubMessage(subject): a PUB without payload
createPubMessage(subject) == "PUB " \o subject \o " 0"

\* onMessage() that looks at the payload before the reply subject
HeartbeatHandler_onMessage_PayloadFirst(calls, reply_to, payload) ==
  IF payload # ""
    THEN Append(calls, HeartbeatCall("onFailure",
                         "incoming heartbeat with non-empty payload"))
  ELSE IF ~has_value(reply_to)
    THEN Append(calls, HeartbeatCall("onFailure",
                         "incoming heartbeat without reply subject"))
  ELSE Append(calls, HeartbeatCall("send", createPubMessage(reply_to[1])))

\* HeartbeatHandler::onMessage(reply_to, payload, callbacks)
HeartbeatHandler_onMessage(calls, reply_to, payload) ==
  IF ~has_value(reply_to)
    THEN Append(calls, HeartbeatCall("onFailure",
                         "incoming heartbeat without reply subject"))
  ELSE IF payload # ""
    THEN Append(calls, HeartbeatCall("onFailure",
                         "incoming heartbeat with non-empty payload"))
  ELSE Append(calls, HeartbeatCall("send", createPubMessage(reply_to[1])))

\* the universe of the handlers
Inboxes == {"_INBOX.1", "_INBOX.2", "_INBOX.3"}
PublishCallbacks == {"publisher_a", "publisher_b"}
ReplySubjects == {nullopt, Optional(""), Optional("reply")}
Payloads == {"", "ack1", "ack2", "ackE", "junk", "x"}
RequestMaps ==
  {NoRequests} \cup
  UNION {[keys -> {PubRequest(c) : c \in PublishCallbacks}] :
           keys \in (SUBSET Inboxes) \ {{}}}

\* the handler as it is entered: the map as it stands, nothing invoked
Handler == [request_per_inbox |-> request_per_inbox, calls |-> <<>>]

\* what a call was given, the map it found and what it invoked
Called(op, inbox, reply_to, payload, h) ==
  /\ request_per_inbox' = h.request_per_inbox
  /\ nats_last' = [op |-> op, inbox |-> inbox, reply_to |-> reply_to,
                   payload |-> payload, before |-> request_per_inbox,
                   calls |-> h.calls]
  /\ UNCHANGED <<sub_args, sub_result, filter_vars, host_vars, obs_vars,
                 inja_vars>>

InitN ==
  /\ FilterIdle
  /\ InjaIdle
  /\ SubstringIdle
  /\ request_per_inbox \in RequestMaps
  /\ nats_last = NoHandlerCall

\* a message arrives on the subscription of an inbox
OnMessage ==
  \E inbox \in Inboxes, reply_to \in ReplySubjects, payload \in Payloads :
    Called("onMessage", inbox, reply_to, payload,
           onMessageInbox(Handler, inbox, reply_to, payload))

\* a PubAck is handled for a publisher that is known already
OnPubAck ==
  \E publish_callbacks \in PublishCallbacks, reply_to \in ReplySubjects,
     payload \in Payloads :
    Called("onPubAck", publish_callbacks, reply_to, payload,
           [Handler EXCEPT !.calls = onMessage(@, reply_to, payload,
                                               publish_callbacks)])

OnTimeout ==
  \E inbox \in Inboxes :
    Called("onTimeout", inbox, nullopt, "", onTimeout(Handler, inbox))

OnCancel ==
  \E inbox \in Inboxes :
    Called("onCancel", inbox, nullopt, "", onCancel(Handler, inbox))

\* a heartbeat of the server arrives
OnHeartbeat ==
  \E reply_to \in ReplySubjects, payload \in Payloads :
    Called("onHeartbeat", "", reply_to, payload,
           [Handler EXCEPT !.calls = HeartbeatHandler_onMessage(
                                       @, reply_to, payload)])

NextN == OnMessage \/ OnPubAck \/ OnTimeout \/ OnCancel \/ OnHeartbeat

SpecN == InitN /\ [][NextN]_vars

-----------------------------------------------------------------------------
(* PubRequestHandler: the properties.                                      *)

\* the last call went through the map
ByInbox == nats_last.op \in {"onMessage", "onTimeout", "onCancel"}

\* the invocations of the last call made on PubRequest objects
RequestCalls ==
  SelectSeq(nats_last.calls, LAMBDA call : call.on = "request")

(* C29: onMessage (inbox overload), onTimeout and onCancel for an inbox    *)
(* that is not in request_per_inbox invoke no callback and leave the map   *)
(* as it was; for an inbox that is in the map they invoke onDestroy of     *)
(* that request exactly once and erase exactly that entry, every other     *)
(* entry staying as it was.                                                *)
C29_EraseExactlyThatEntry ==
  ByInbox =>
    IF nats_last.inbox \notin DOMAIN nats_last.before
      THEN /\ nats_last.calls = <<>>
           /\ request_per_inbox = nats_last.before
      ELSE /\ RequestCalls = <<RequestCall(nats_last.inbox, "onDestroy")>>
           /\ DOMAIN request_per_inbox =
                (DOMAIN nats_last.before) \ {nats_last.inbox}
           /\ \A key \in DOMAIN request_per_inbox :
                request_per_inbox[key] = nats_last.before[key]

\* an entry was erased and another one is still there
C29_Witness ==
  /\ ByInbox
  /\ nats_last.inbox \in DOMAIN nats_last.before
  /\ DOMAIN request_per_inbox # {}
\* a call for an inbox that is not in a non-empty map
C29_WitnessMissing ==
  /\ ByInbox
  /\ nats_last.inbox \notin DOMAIN nats_last.before
  /\ DOMAIN nats_last.before # {}

\* the last call ran onMessage(reply_to, payload, ..) for these callbacks
HandledPubAck ==
  \/ nats_last.op = "onPubAck"
  \/ /\ nats_last.op = "onMessage"
     /\ nats_last.inbox \in DOMAIN nats_last.before
PublisherOfLast ==
  IF nats_last.op = "onPubAck" THEN nats_last.inbox
  ELSE nats_last.before[nats_last.inbox].callbacks

\* the invocations of the last call on the inbox and publish callbacks
CallbackCalls ==
  SelectSeq(nats_last.calls, LAMBDA call : call.on # "request")

(* C30: onMessage on a PubAck invokes exactly one callback: inbox          *)
(* onFailure when a reply subject is present or the payload is empty (and  *)
(* then no publish callback); otherwise onResponse of the publish          *)
(* callbacks when the payload parses as a PubAck whose error is empty, and *)
(* their onFailure when it does not parse or carries an error.             *)
C30_ExactlyOneCallback ==
  HandledPubAck =>
    /\ Len(CallbackCalls) = 1
    /\ LET call == CallbackCalls[1]
           ack == parsePubAckMessage(nats_last.payload)
       IN IF has_value(nats_last.reply_to) \/ nats_last.payload = ""
            THEN call.on = "inbox_callbacks" /\ call.method = "onFailure"
          ELSE IF has_value(ack) /\ ack[1].error = ""
            THEN call = PublishCall(PublisherOfLast, "onResponse")
          ELSE call = PublishCall(PublisherOfLast, "onFailure")

\* an empty payload without a reply subject fails on the inbox callbacks
C30_Witness ==
  /\ HandledPubAck
  /\ nats_last.reply_to = nullopt
  /\ nats_last.payload = ""
  /\ nats_last.calls[1] = InboxCall("onFailure",
                                    "incoming PubAck without payload")
\* a PubAck without an error answers the publisher of the inbox
C30_WitnessResponse ==
  /\ nats_last.op = "onMessage"
  /\ CallbackCalls = <<PublishCall("publisher_b", "onResponse")>>
\* a PubAck that carries an error
C30_WitnessError ==
  /\ HandledPubAck
  /\ nats_last.payload = "ackE"
  /\ CallbackCalls = <<PublishCall(PublisherOfLast, "onFailure")>>

\* the last call took a request out of the map
Removed ==
  /\ ByInbox
  /\ nats_last.inbox \in DOMAIN nats_last.before
\* the publish callbacks the last call invoked
Notifications ==
  SelectSeq(nats_last.calls, LAMBDA call : call.on = "publish_callbacks")

(* C31: a request that onMessage or onTimeout takes out of the map has had *)
(* exactly one of onResponse, onFailure and onTimeout invoked on its own   *)
(* publish callbacks by that call, and a request that onCancel takes out   *)
(* has had none; a request is gone from the map once it was notified, so   *)
(* that none is notified twice.                                            *)
C31_NotifiedExactlyOnce ==
  Removed =>
    /\ nats_last.inbox \notin DOMAIN request_per_inbox
    /\ IF nats_last.op = "onCancel" THEN Notifications = <<>>
       ELSE /\ Len(Notifications) = 1
            /\ Notifications[1].callbacks =
                 nats_last.before[nats_last.inbox].callbacks
            /\ Notifications[1].method \in
                 {"onResponse", "onFailure", "onTimeout"}

\* the last call was a heartbeat
Heartbeat == nats_last.op = "onHeartbeat"

(* C32: a heartbeat invokes exactly one callback: onFailure for the        *)
(* missing reply subject when there is none, whatever the payload;         *)
(* onFailure for the payload when there is a reply subject and the payload *)
(* is not empty; otherwise send, of one pub message to the reply subject.  *)
C32_OneHeartbeatCallback ==
  Heartbeat =>
    /\ Len(nats_last.calls) = 1
    /\ nats_last.calls[1] =
         IF ~has_value(nats_last.reply_to)
           THEN HeartbeatCall("onFailure",
                              "incoming heartbeat without reply subject")
         ELSE IF nats_last.payload # ""
           THEN HeartbeatCall("onFailure",
                              "incoming heartbeat with non-empty payload")
         ELSE HeartbeatCall("send", "PUB " \o nats_last.reply_to[1] \o " 0")

\* no reply subject and a payload: the reply subject is reported
C32_Witness ==
  /\ Heartbeat
  /\ nats_last.reply_to = nullopt
  /\ nats_last.payload = "x"
  /\ nats_last.calls[1].method = "onFailure"
\* a well-formed heartbeat is answered on its reply subject
C32_WitnessSend ==
  /\ Heartbeat
  /\ nats_last.calls = <<HeartbeatCall("send", "PUB reply 0")>>

====
